---- MODULE Spec2Model ----
(***************************************************************************)
(* Model of the task orchestrator of autonomous-ai-agent: the FastAPI      *)
(* backend (submit_task, OrchestratorAgent.plan_task and execute_task)     *)
(* working on a Redis store of task records, the query and push endpoints  *)
(* (get_task_status, websocket_endpoint) and the error classifier of the   *)
(* web client (handleApiError).                                            *)
(*                                                                         *)
(* A task description is a sequence of one-character strings, so that      *)
(* str.lower() and the substring test `kw in s` are computed, not assumed. *)
(* A uuid4() is the next value of a counter (fresh by construction).       *)
(* A Python float k/n is the reduced fraction [num, den].                  *)
(***************************************************************************)
EXTENDS Integers, Sequences, FiniteSets, TLC

\* ------------------------------------------------------------- bounds
\* Tasks submitted in one behaviour.
MaxTasks == 2
\* Vocabulary words concatenated into one description (PlanSpec).
MaxWords == 4
\* WebSocket connections opened in a run.
MaxSubscribers == 2
\* Messages sent over one WebSocket connection.
MaxMessages == 3
\* Entries in the log of the task that is replayed.
MaxLogLen == 2
\* Replay WebSockets opened by one TaskReplay component.
MaxSessions == 3
\* Largest attempt number given to getReconnectDelay (BackoffSpec).
MaxAttempt == 64
\* Successful connections of the status WebSocket of one TaskStatus.
MaxOpens == 2
\* Clicks on the Reconnect button of one TaskStatus.
MaxRetries == 1
\* Times ThemeProvider is mounted (page loads) in one browser.
MaxMounts == 3
\* Calls of toggleDarkMode in one browser.
MaxToggles == 3
\* Changes of the taskId prop of a mounted TaskStatus.
MaxChanges == 1

\* ---------------------------------------------------------- constants
PENDING == "pending"
IN_PROGRESS == "in_progress"
COMPLETED == "completed"
FAILED == "failed"

WEB_RESEARCH == "web_research"
CODE_GENERATION == "code_generation"
DATA_ANALYSIS == "data_analysis"
CONTENT_CREATION == "content_creation"

\* Python's None, for the optional string fields result and error.
None == "None"

\* TaskStatus.tsx: the reconnection policy of the status WebSocket.
INITIAL_RECONNECT_DELAY == 1000
MAX_RECONNECT_ATTEMPTS == 5
MAX_RECONNECT_DELAY == 30000

\* ex=604800 of the first SET; NoExpiry is a key without a TTL.
RetentionSeconds == 604800
NoExpiry == -1

\* ------------------------------------------------------------ strings
UpperCase ==
    << "A", "B", "C", "D", "E", "F", "G", "H", "I", "J", "K", "L", "M",
       "N", "O", "P", "Q", "R", "S", "T", "U", "V", "W", "X", "Y", "Z" >>
LowerCase ==
    << "a", "b", "c", "d", "e", "f", "g", "h", "i", "j", "k", "l", "m",
       "n", "o", "p", "q", "r", "s", "t", "u", "v", "w", "x", "y", "z" >>

\* str.lower() on one character.
LowerChar(c) ==
    IF \E i \in 1..Len(UpperCase) : UpperCase[i] = c
    THEN LowerCase[CHOOSE i \in 1..Len(UpperCase) : UpperCase[i] = c]
    ELSE c

\* Mutant of lower: the description is matched as written (no .lower()).
lower_AsWritten(s) == s

\* str.lower()
lower(s) == [i \in 1..Len(s) |-> LowerChar(s[i])]

\* Python's `kw in s` on strings: kw is a contiguous substring of s.
Contains(s, kw) ==
    \E i \in 1..(Len(s) - Len(kw) + 1) : SubSeq(s, i, i + Len(kw) - 1) = kw

\* str(n) of a natural number.
DigitChars == << "0", "1", "2", "3", "4", "5", "6", "7", "8", "9" >>
RECURSIVE Str(_)
Str(n) ==
    IF n < 10 THEN << DigitChars[n + 1] >>
    ELSE Str(n \div 10) \o << DigitChars[(n % 10) + 1] >>

\* An absent or empty detail of an HTTP error.
NoDetail == << >>
\* detail="Invalid task" of submit_task.
DetailInvalidTask ==
    << "I", "n", "v", "a", "l", "i", "d", " ", "t", "a", "s", "k" >>
\* detail="Task not found" of get_task_status.
DetailTaskNotFound ==
    << "T", "a", "s", "k", " ", "n", "o", "t", " ", "f", "o", "u", "n",
       "d" >>
\* f"Error submitting task: {str(e)}": the prefix.
ErrorSubmittingTask ==
    << "E", "r", "r", "o", "r", " ", "s", "u", "b", "m", "i", "t", "t",
       "i", "n", "g", " ", "t", "a", "s", "k", ":", " " >>
\* str(e) of the redis.ConnectionError raised while Redis cannot be reached.
RedisErrorText ==
    << "E", "r", "r", "o", "r", " ", "1", "1", "1", " ", "c", "o", "n",
       "n", "e", "c", "t", "i", "n", "g", " ", "t", "o", " ", "l", "o",
       "c", "a", "l", "h", "o", "s", "t", ":", "6", "3", "7", "9", ".",
       " ", "C", "o", "n", "n", "e", "c", "t", "i", "o", "n", " ", "r",
       "e", "f", "u", "s", "e", "d", "." >>
\* str(e) of an HTTPException: "{status_code}: {detail}".
StrHTTPException(status_code, detail) ==
    Str(status_code) \o << ":", " " >> \o detail

\* The four keywords tested by plan_task.
KwResearch == << "r", "e", "s", "e", "a", "r", "c", "h" >>
KwCode == << "c", "o", "d", "e" >>
KwAnalyze == << "a", "n", "a", "l", "y", "z", "e" >>
KwWrite == << "w", "r", "i", "t", "e" >>

\* ------------------------------------------------------------- inputs
\* Words that descriptions are built from: the keywords in mixed case, a
\* near miss ("analysis") and a separator.
Vocabulary ==
    { << "R", "e", "s", "e", "a", "r", "c", "h" >>,
      << "C", "o", "d", "e" >>,
      << "A", "N", "A", "L", "Y", "Z", "E" >>,
      << "w", "r", "i", "t", "e" >>,
      << "a", "n", "a", "l", "y", "s", "i", "s" >>,
      << " " >> }

RECURSIVE Concat(_)
Concat(ws) == IF ws = << >> THEN << >> ELSE Head(ws) \o Concat(Tail(ws))

\* Every concatenation of at most MaxWords vocabulary words.
Descriptions ==
    { Concat(ws) : ws \in UNION { [1..n -> Vocabulary] : n \in 0..MaxWords } }

WordAnd == << "a", "n", "d" >>
WordHello == << "H", "e", "l", "l", "o" >>
Space == << " " >>

\* The requests of the main specification: the empty description, one
\* without a keyword ("Hello"), and plans of one to three subtasks ("Code",
\* "Research and write", "write CODE research").
SampleDescriptions ==
    { << >>,
      WordHello,
      << "C", "o", "d", "e" >>,
      << "R", "e", "s", "e", "a", "r", "c", "h" >> \o Space \o WordAnd
          \o Space \o KwWrite,
      KwWrite \o Space \o << "C", "O", "D", "E" >> \o Space \o KwResearch }

\* ------------------------------------------------------------ records
\* Subtask(id=..., type=..., status=PENDING): the other fields default.
NewSubtask(id, type) ==
    [ id |-> id, type |-> type, status |-> PENDING,
      result |-> None, error |-> None, progress |-> [num |-> 0, den |-> 1] ]

\* Mutant of uuid4: the same value at every call.
uuid4_Fixed(n) == 1

\* uuid.uuid4(): the n-th uuid drawn from the generator.
uuid4(n) == n + 1

RECURSIVE Gcd(_, _)
Gcd(a, b) == IF b = 0 THEN a ELSE Gcd(b, a % b)

\* The float a / b (b > 0): equal quotients are equal values.
FloatDiv(a, b) == [num |-> a \div Gcd(a, b), den |-> b \div Gcd(a, b)]
Zero == [num |-> 0, den |-> 1]
One == [num |-> 1, den |-> 1]
\* p <= q on floats
Leq(p, q) == p.num * q.den <= q.num * p.den

\* ------------------------------------------------------------ planner
\* Mutant of validate_task: every description passes.
validate_task_AcceptAll(desc) == TRUE

\* OrchestratorAgent.validate_task: `if not task.task: return False`.
validate_task(desc) == desc # << >>

\* Mutant of PlanStep: the new subtask is put in front of the plan.
PlanStep_Prepend(subtasks, desc, kw, type, n) ==
    IF Contains(lower(desc), kw)
    THEN << NewSubtask(uuid4(n + Len(subtasks)), type) >> \o subtasks
    ELSE subtasks

\* One `if kw in task.task.lower(): subtasks.append(Subtask(...))` of
\* plan_task; n uuids were drawn before plan_task was called.
PlanStep(subtasks, desc, kw, type, n) ==
    IF Contains(lower(desc), kw)
    THEN Append(subtasks, NewSubtask(uuid4(n + Len(subtasks)), type))
    ELSE subtasks

\* OrchestratorAgent.plan_task
plan_task(desc, n) ==
    LET s1 == PlanStep(<< >>, desc, KwResearch, WEB_RESEARCH, n)
        s2 == PlanStep(s1, desc, KwCode, CODE_GENERATION, n)
        s3 == PlanStep(s2, desc, KwAnalyze, DATA_ANALYSIS, n)
        s4 == PlanStep(s3, desc, KwWrite, CONTENT_CREATION, n)
    IN  s4

\* TaskResponse(task_id=..., status=PENDING, subtasks=[...]).
NewTaskResponse(task_id, subtasks) ==
    [ task_id |-> task_id, status |-> PENDING, result |-> None,
      error |-> None, progress |-> Zero, subtasks |-> subtasks ]

\* ------------------------------------------------- web client (api.ts)
\* enum ErrorType.
SERVER_ERROR == "SERVER_ERROR"
NETWORK_ERROR == "NETWORK_ERROR"
REDIS_UNAVAILABLE == "REDIS_UNAVAILABLE"
VALIDATION_ERROR == "VALIDATION_ERROR"
UNKNOWN_ERROR == "UNKNOWN_ERROR"

\* The two texts handleApiError looks for in data.detail.
KwStorageService ==
    << "S", "t", "o", "r", "a", "g", "e", " ", "s", "e", "r", "v", "i",
       "c", "e" >>
KwRedis ==
    << "R", "e", "d", "i", "s" >>

\* handleApiError for an axios error; status_code 0 stands for a request
\* that got no response. data.detail?.includes(x) is false when the detail
\* is absent.
handleApiError(resp) ==
    IF resp.status_code = 0
    THEN [ type |-> NETWORK_ERROR, statusCode |-> 0, retryable |-> TRUE ]
    ELSE IF /\ resp.status_code = 503
            /\ \/ Contains(resp.detail, KwStorageService)
               \/ Contains(resp.detail, KwRedis)
    THEN [ type |-> REDIS_UNAVAILABLE, statusCode |-> resp.status_code,
           retryable |-> TRUE ]
    ELSE IF resp.status_code = 400
    THEN [ type |-> VALIDATION_ERROR, statusCode |-> resp.status_code,
           retryable |-> FALSE ]
    ELSE IF resp.status_code >= 500
    THEN [ type |-> SERVER_ERROR, statusCode |-> resp.status_code,
           retryable |-> TRUE ]
    ELSE [ type |-> UNKNOWN_ERROR, statusCode |-> resp.status_code,
           retryable |-> resp.status_code < 500 ]

\* -------------------------------------------------------------- state
VARIABLES
    store,       \* Redis: key task:{id} -> the JSON task record
    expiry,      \* Redis: key -> its TTL setting
    task_queue,  \* orchestrator.task_queue
    pc,          \* per task id: where its execute_task coroutine stands
    idx,         \* per task id: position of `for subtask in task.subtasks`
    task,        \* per task id: the local `task` of execute_task
    log,         \* per task id: the records the logger wrote for it
    submitted,   \* per task id: the description of the request that made it
    uuids,       \* number of uuid4() values in use
    response,    \* the HTTP response to the last POST /tasks/submit
    query,       \* the last GET /tasks/{task_id} and its HTTP response
    received,    \* per WebSocket connection: the task and the messages sent
    apiResponse, \* web client: an HTTP error response given to handleApiError
    apiError,    \* web client: the ApiErrorResponse made of it
    replay,      \* web client: the TaskReplay component and its replay session
    backoff,     \* web client: an attempt number and the delay computed for it
    conn,        \* web client: the WebSocket of the TaskStatus component
    theme,       \* web client: ThemeProvider and the browser's localStorage
    history      \* web client: a call of getTaskHistory and its outcome

\* The variables of the endpoints and of the web client.
uiVars == << replay, backoff, conn, theme, history >>
\* The variables of the backend and of the requests to it.
serverVars ==
    << store, expiry, task_queue, pc, idx, task, log, submitted, uuids,
       response, query, received, apiResponse, apiError >>
clientVars == << query, received, apiResponse, apiError, uiVars >>

vars ==
    << store, expiry, task_queue, pc, idx, task, log, submitted, uuids,
       response, query, received, apiResponse, apiError,
       replay, backoff, conn, theme, history >>

\* No request was made yet.
NoResponse == [status_code |-> 0, detail |-> NoDetail]
NoQuery == [task_id |-> 0, exists |-> FALSE, redis_up |-> TRUE,
            status_code |-> 0, detail |-> NoDetail, body |-> << >>]

\* A replay session of the server: entries sent so far, paused, speed,
\* started by the first message of the client, ended by replay_complete.
NewSession == [ started |-> FALSE, sent |-> 0, paused |-> FALSE, speed |-> 0,
                complete |-> FALSE ]

\* TaskReplay after its first render and effects: the useState defaults,
\* the refs null, getTaskReplay in flight. socket is the number of the
\* WebSocket in socket.current (0 for null), logs the log of the task as
\* fetched, speed the speed in halves (useState(1.0) is 2); paused, speedChanged, restarted and stopped record what was done
\* to the playback. currentTime and duration are the two times shown, in
\* seconds.
ReplayInit ==
    [ loading |-> TRUE, loaded |-> FALSE, error |-> FALSE,
      isPlaying |-> FALSE, currentLogIndex |-> -1, speed |-> 2,
      visibleLogs |-> << >>, logs |-> << >>,
      socket |-> 0, socketState |-> "none", sessions |-> 0,
      animating |-> FALSE, server |-> NewSession,
      paused |-> FALSE, speedChanged |-> FALSE, restarted |-> FALSE,
      stopped |-> "no", currentTime |-> 0, duration |-> 0 ]

\* What a step of the TaskReplay component leaves alone.
replayFrame == << serverVars, backoff, conn, theme, history >>

\* No delay computed yet for attempt 0.
NoDelay == -1

BackoffInit == [ attempt |-> 0, delay |-> NoDelay, prev |-> NoDelay ]

\* The values of the taskId prop, and the one the component is mounted with.
TaskIds == { "task-1", "task-2" }
FirstTaskId == "task-1"

\* The task record that getTaskStatus returns.
FetchedTask == "fetched"

\* TaskStatus after its first render and effects: the useState defaults,
\* the refs null or 0, getTaskStatus in flight. ws is the state of the socket
\* in ws.current ("null" for null); connecting counts the initWebSocket calls
\* awaiting their socket, by caller ("user": mount effect or button, "timer":
\* reconnect timer); leaked counts open sockets that still have their
\* handlers but are no longer in ws.current, closing those closed by the
\* client whose close event is still to come; timeout is reconnectTimeout
\* .current ("null", or the timer it names "pending" or "fired"), timers the
\* reconnect timers scheduled and neither fired nor cleared, cancelled
\* whether clearTimeout ever cleared one that had not fired. tried counts
\* the connection attempts made by reconnect timers since the last
\* successful connection, opens and retries the successful connections and
\* button clicks so far, event the last thing that happened. taskId is the
\* taskId prop, url the task of the channel /ws/{task} of the WebSocket
\* created last, refetching whether the getTaskStatus of a later run of the
\* mount effect is in flight, changes the changes of the prop so far. task is
\* the task state: "null", the record fetched or the one of a message.
ConnInit ==
    [ mounted |-> TRUE, loading |-> TRUE, hasTask |-> FALSE,
      connectionStatus |-> "disconnected", error |-> "", isReconnecting |-> FALSE,
      ws |-> "null", connecting |-> [user |-> 0, timer |-> 0],
      leaked |-> 0, closing |-> 0,
      reconnectAttempts |-> 0, timeout |-> "null", timers |-> 0,
      cancelled |-> FALSE,
      tried |-> 0, opens |-> 0, retries |-> 0, event |-> "mount",
      taskId |-> FirstTaskId, url |-> "none", refetching |-> FALSE,
      changes |-> 0, task |-> "null" ]

\* localStorage.getItem of a key that is not stored gives null.
NoItem == "null-value"
\* An optional boolean is << >> or << b >>: no setDarkMode is waiting for
\* the next render, nothing is known of an earlier darkMode.
NoUpdate == << >>

\* ThemeProvider before it is mounted, in a browser that stores `stored`
\* under 'darkMode'. phase is "settled" when no render and no effect is
\* outstanding, "mounted" after the first render (both effects outstanding),
\* "update" when a setDarkMode of an effect waits for its render, "effect"
\* when the effect of [darkMode] is outstanding; darkTheme is the class
\* 'dark-theme' of the document. preference is the darkMode of the provider
\* that was last unmounted with its effects run, before1 and before2 the
\* darkMode before the last toggle and before the one before it.
NewTheme(stored) ==
    [ mounted |-> FALSE, darkMode |-> TRUE, phase |-> "settled",
      update |-> NoUpdate, stored |-> stored, darkTheme |-> FALSE,
      preference |-> NoUpdate, before1 |-> NoUpdate, before2 |-> NoUpdate,
      toggles |-> 0, mounts |-> 0 ]

ThemeInit == NewTheme(NoItem)

\* No call of getTaskHistory was made. network is whether fetch will
\* resolve, response what it resolves to (its status and its body, as text
\* and, where the text is JSON, as the value JSON.parse gives, a sequence of
\* one value); result is how the promise of getTaskHistory settled.
NewHistory(network, resp) ==
    [ state |-> "idle", network |-> network, response |-> resp,
      result |-> [ settled |-> "pending" ] ]

HistoryInit ==
    NewHistory(TRUE, [ status |-> 200, text |-> "", json |-> << >> ])

\* The web components as mounted.
UiInit ==
    /\ replay = ReplayInit
    /\ backoff = BackoffInit
    /\ conn = ConnInit
    /\ theme = ThemeInit
    /\ history = HistoryInit

Init ==
    /\ store = << >>
    /\ expiry = << >>
    /\ task_queue = << >>
    /\ pc = << >>
    /\ idx = << >>
    /\ task = << >>
    /\ log = << >>
    /\ submitted = << >>
    /\ uuids = 0
    /\ response = NoResponse
    /\ query = NoQuery
    /\ received = << >>
    /\ apiResponse = NoResponse
    /\ apiError = [type |-> None, statusCode |-> 0, retryable |-> FALSE]
    /\ UiInit

\* Mutant of RedisSet: every write goes to the key of task 1.
RedisSet_OneKey(db, key, value) == (1 :> value) @@ db

\* redis_client.set(key, value[, ex]): creates or replaces the key; a SET
\* without ex discards the TTL of the key.
RedisSet(db, key, value) == (key :> value) @@ db

\* logger.info(...) seen as one record of the task's log.
LogEntry(action, subtask) == [action |-> action, subtask |-> subtask]
NoSubtask == 0

\* ------------------------------------------------------------- submit
\* submit_task: no await in it suspends, so the handler is one step.
SubmitTask(desc, redis_up) ==
    /\ UNCHANGED clientVars
    /\ IF ~validate_task(desc)
       THEN \* HTTPException(400, "Invalid task") is raised inside the try and
            \* caught by `except Exception`, which raises HTTPException(500)
            \* with detail "Error submitting task: " + str(e).
            /\ response' =
                   [ status_code |-> 500,
                     detail |-> ErrorSubmittingTask
                         \o StrHTTPException(400, DetailInvalidTask) ]
            /\ UNCHANGED << store, expiry, task_queue, pc, idx, task, log,
                            submitted, uuids >>
       ELSE IF ~redis_up
       THEN \* redis_client.set raises; the uuids drawn are dropped unused.
            /\ response' = [ status_code |-> 500,
                             detail |-> ErrorSubmittingTask \o RedisErrorText ]
            /\ UNCHANGED << store, expiry, task_queue, pc, idx, task, log,
                            submitted, uuids >>
       ELSE /\ Len(task_queue) < MaxTasks
            /\ LET task_id == uuid4(uuids)
                   subtasks == plan_task(desc, uuids + 1)
                   rec == NewTaskResponse(task_id, subtasks)
               IN  /\ store' = RedisSet(store, task_id, rec)
                   /\ expiry' = RedisSet(expiry, task_id, RetentionSeconds)
                   /\ task_queue' = Append(task_queue, task_id)
                   /\ pc' = (task_id :> "created") @@ pc
                   /\ idx' = (task_id :> 0) @@ idx
                   /\ log' = (task_id :> << LogEntry("submitted", NoSubtask) >>)
                                 @@ log
                   /\ submitted' = (task_id :> desc) @@ submitted
                   /\ uuids' = uuids + 1 + Len(subtasks)
                   /\ response' = [ status_code |-> 200, task_id |-> task_id,
                                    status |-> rec.status ]
                   /\ UNCHANGED task

\* ------------------------------------------------------------ execute
\* Mutant of CompletedSubtask: the subtask is set back to PENDING.
CompletedSubtask_Reopened(st) == [st EXCEPT !.status = PENDING]

\* Lines 148-150: the subtask that has finished its (simulated) work.
CompletedSubtask(st) ==
    [ st EXCEPT !.progress = One, !.status = COMPLETED,
                !.result = "Subtask " \o ToString(st.id) \o " completed" ]

CountCompleted(subtasks) ==
    Cardinality({ i \in 1..Len(subtasks) : subtasks[i].status = COMPLETED })

\* Mutant of TaskProgress: the subtasks still PENDING are counted.
TaskProgress_CountsPending(subtasks) ==
    IF Len(subtasks) > 0
    THEN FloatDiv(Cardinality({ i \in 1..Len(subtasks) :
                                  subtasks[i].status = PENDING }),
                  Len(subtasks))
    ELSE Zero

\* Mutant of TaskProgress: integer division, completed // total.
TaskProgress_FloorDiv(subtasks) ==
    IF Len(subtasks) > 0
    THEN FloatDiv(CountCompleted(subtasks) \div Len(subtasks), 1)
    ELSE Zero

\* Lines 153-155: completed / total if total > 0 else 0.
TaskProgress(subtasks) ==
    IF Len(subtasks) > 0
    THEN FloatDiv(CountCompleted(subtasks), Len(subtasks))
    ELSE Zero

\* Mutant of CompleteLocal: the task is marked COMPLETED as soon as one of
\* its subtasks completes.
CompleteLocal_MarksTaskCompleted(t, i) ==
    LET done == [t.subtasks EXCEPT ![i] = CompletedSubtask(@)]
    IN  [t EXCEPT !.subtasks = done, !.progress = TaskProgress(done),
                  !.status = COMPLETED]

\* Lines 148-155: the local task after subtask i has completed.
CompleteLocal(t, i) ==
    LET done == [t.subtasks EXCEPT ![i] = CompletedSubtask(@)]
    IN  [t EXCEPT !.subtasks = done, !.progress = TaskProgress(done)]

\* Line 166: all(st.status == COMPLETED for st in task.subtasks).
AllCompleted(subtasks) ==
    \A i \in 1..Len(subtasks) : subtasks[i].status = COMPLETED

\* Mutant of LogStarting: the start of a subtask is not logged.
LogStarting_Skip(l, st) == l

\* Line 142: logger.info("Starting subtask ...").
LogStarting(l, st) == Append(l, LogEntry("started", st.id))
\* Line 163: logger.info("Completed subtask ...").
LogCompleted(l, st) == Append(l, LogEntry("completed", st.id))

\* execute_task has no try: an exception of redis_client ends the coroutine
\* (the asyncio task keeps the exception, nobody awaits it) and its local
\* variables are gone with its frame.
Crash(id) ==
    /\ pc' = [pc EXCEPT ![id] = "crashed"]
    /\ task' = [k \in DOMAIN task \ {id} |-> task[k]]
    /\ idx' = [idx EXCEPT ![id] = 0]

\* Lines 130-136: the coroutine started by asyncio.create_task reads the
\* record; json.loads of what json.dumps wrote gives the same fields back.
ExecuteStart(id, redis_up) ==
    /\ id \in DOMAIN pc
    /\ pc[id] = "created"
    /\ IF ~redis_up
       THEN /\ Crash(id)
            /\ UNCHANGED log
       ELSE IF id \in DOMAIN store
       THEN /\ task' = (id :> store[id]) @@ task
            /\ idx' = [idx EXCEPT ![id] = 1]
            /\ pc' = [pc EXCEPT ![id] = "loop"]
            /\ UNCHANGED log
       ELSE /\ pc' = [pc EXCEPT ![id] = "done"]
            /\ log' = [log EXCEPT ![id] = Append(@, LogEntry("not_found", NoSubtask))]
            /\ UNCHANGED << task, idx >>
    /\ UNCHANGED << store, expiry, task_queue, submitted, uuids, response,
                    clientVars >>

\* Lines 139-145: the next subtask of the loop; a PENDING one is set
\* IN_PROGRESS and the coroutine suspends in asyncio.sleep(1).
StartSubtask(id) ==
    /\ id \in DOMAIN pc
    /\ pc[id] = "loop"
    /\ idx[id] <= Len(task[id].subtasks)
    /\ IF task[id].subtasks[idx[id]].status = PENDING
       THEN /\ task' = [task EXCEPT ![id].subtasks[idx[id]].status = IN_PROGRESS]
            /\ log' = [log EXCEPT ![id] = LogStarting(@, task[id].subtasks[idx[id]])]
            /\ pc' = [pc EXCEPT ![id] = "sleep"]
            /\ UNCHANGED idx
       ELSE /\ idx' = [idx EXCEPT ![id] = @ + 1]
            /\ UNCHANGED << task, log, pc >>
    /\ UNCHANGED << store, expiry, task_queue, submitted, uuids, response,
                    clientVars >>

\* Lines 147-163: after the sleep the subtask completes, the progress is
\* recomputed, the record is written (SET without ex), notify_clients does
\* nothing, and the completion is logged.
CompleteSubtask(id, redis_up) ==
    /\ id \in DOMAIN pc
    /\ pc[id] = "sleep"
    /\ LET new == CompleteLocal(task[id], idx[id])
       IN  IF redis_up
              THEN /\ task' = [task EXCEPT ![id] = new]
                   /\ store' = RedisSet(store, id, new)
                   /\ expiry' = RedisSet(expiry, id, NoExpiry)
                   /\ log' = [log EXCEPT ![id] = LogCompleted(@, new.subtasks[idx[id]])]
                   /\ idx' = [idx EXCEPT ![id] = @ + 1]
                   /\ pc' = [pc EXCEPT ![id] = "loop"]
              ELSE /\ Crash(id)
                   /\ UNCHANGED << store, expiry, log >>
    /\ UNCHANGED << task_queue, submitted, uuids, response, clientVars >>

\* Lines 165-169: after the loop, a task whose subtasks are all COMPLETED
\* is set COMPLETED and written.
FinishTask(id, redis_up) ==
    /\ id \in DOMAIN pc
    /\ pc[id] = "loop"
    /\ idx[id] > Len(task[id].subtasks)
    /\ IF AllCompleted(task[id].subtasks)
       THEN LET new == [task[id] EXCEPT !.status = COMPLETED]
            IN  IF redis_up
                   THEN /\ task' = [task EXCEPT ![id] = new]
                        /\ store' = RedisSet(store, id, new)
                        /\ expiry' = RedisSet(expiry, id, NoExpiry)
                        /\ log' = [log EXCEPT ![id] = Append(@, LogEntry("task_completed", NoSubtask))]
                        /\ pc' = [pc EXCEPT ![id] = "done"]
                        /\ UNCHANGED idx
                   ELSE /\ Crash(id)
                        /\ UNCHANGED << store, expiry, log >>
       ELSE /\ pc' = [pc EXCEPT ![id] = "done"]
            /\ UNCHANGED << task, idx, store, expiry, log >>
    /\ UNCHANGED << task_queue, submitted, uuids, response,
                    clientVars >>

\* GET-and-send of websocket_endpoint: one iteration of its loop for the
\* connection c. An error of redis_client, or WebSocketDisconnect at the
\* send to a client that has left, ends the handler.
WsPoll(c, redis_up, connected) ==
    /\ c \in 1..Len(received)
    /\ received[c].open
    /\ Len(received[c].messages) < MaxMessages
    /\ received' =
           IF ~redis_up
           THEN [received EXCEPT ![c].open = FALSE]
           ELSE IF received[c].task_id \notin DOMAIN store
           THEN received
           ELSE IF ~connected
           THEN [received EXCEPT ![c].open = FALSE]
           ELSE [received EXCEPT
                    ![c].messages = Append(@, store[received[c].task_id])]
    /\ UNCHANGED << store, expiry, task_queue, pc, idx, task, log, submitted,
                    uuids, response, query, apiResponse, apiError, uiVars >>

\* websocket.accept() of websocket_endpoint for /ws/{task_id}.
WsConnect(task_id) ==
    /\ Len(received) < MaxSubscribers
    /\ received' = Append(received, [ task_id |-> task_id, messages |-> << >>,
                                      open |-> TRUE ])
    /\ UNCHANGED << store, expiry, task_queue, pc, idx, task, log, submitted,
                    uuids, response, query, apiResponse, apiError, uiVars >>

\* Redis answers every command.
RedisUp == TRUE

\* One step of some execute_task coroutine.
Execute ==
    \E id \in DOMAIN pc, redis_up \in BOOLEAN :
        \/ ExecuteStart(id, redis_up)
        \/ StartSubtask(id)
        \/ CompleteSubtask(id, redis_up)
        \/ FinishTask(id, redis_up)

\* One step of some execute_task coroutine while Redis answers.
Run ==
    \E id \in DOMAIN pc :
        \/ ExecuteStart(id, RedisUp)
        \/ StartSubtask(id)
        \/ CompleteSubtask(id, RedisUp)
        \/ FinishTask(id, RedisUp)

\* DELETE /tasks/{task_id}, the request of deleteTask of the web client:
\* the record of the task is removed from the store (delete(id) of the
\* Task Store).
DeleteTask(id) ==
    /\ id \in DOMAIN store
    /\ store' = [k \in DOMAIN store \ {id} |-> store[k]]
    /\ expiry' = [k \in DOMAIN expiry \ {id} |-> expiry[k]]
    /\ UNCHANGED << task_queue, pc, idx, task, log, submitted, uuids,
                    response, clientVars >>

\* A task id that submit_task never gave out.
UnknownId == 0

\* GET /tasks/{task_id}: get_task_status. The HTTPException(404) is raised
\* inside the try and caught by `except Exception`, as is the error of
\* redis_client; both leave as HTTPException(500, detail=str(e)). The
\* fields exists and redis_up record what was the case at the request.
GetTaskStatus(task_id, redis_up) ==
    /\ query' =
           IF ~redis_up
           THEN [ task_id |-> task_id, exists |-> task_id \in DOMAIN store,
                  redis_up |-> FALSE, status_code |-> 500,
                  detail |-> RedisErrorText, body |-> << >> ]
           ELSE IF task_id \notin DOMAIN store
           THEN [ task_id |-> task_id, exists |-> FALSE, redis_up |-> TRUE,
                  status_code |-> 500,
                  detail |-> StrHTTPException(404, DetailTaskNotFound),
                  body |-> << >> ]
           ELSE [ task_id |-> task_id, exists |-> TRUE, redis_up |-> TRUE,
                  status_code |-> 200, detail |-> NoDetail,
                  body |-> << store[task_id] >> ]
    /\ UNCHANGED << store, expiry, task_queue, pc, idx, task, log, submitted,
                    uuids, response, received, apiResponse, apiError,
                    uiVars >>

Submit == \E desc \in SampleDescriptions : SubmitTask(desc, RedisUp)

\* The runs in which Redis answers every command and nothing is deleted.
Next ==
    \/ Submit
    \/ \E id \in DOMAIN pc : ExecuteStart(id, RedisUp)
    \/ \E id \in DOMAIN pc : StartSubtask(id)
    \/ \E id \in DOMAIN pc : CompleteSubtask(id, RedisUp)
    \/ \E id \in DOMAIN pc : FinishTask(id, RedisUp)

Spec == Init /\ [][Next]_vars

\* The event loop runs every coroutine that is ready, and asyncio.sleep(1)
\* returns: each started execution keeps taking steps.
FairSpec == Spec /\ WF_vars(Run)

\* The planner alone: one request, drawn from every description.
PlanNext ==
    \E desc \in Descriptions :
        task_queue = << >> /\ SubmitTask(desc, RedisUp)
PlanSpec == Init /\ [][PlanNext]_vars

\* The descriptions submitted while Redis may fail: the empty one, and plans
\* of no subtask, of one and of two.
FaultDescriptions ==
    { << >>,
      WordHello,
      << "C", "o", "d", "e" >>,
      << "R", "e", "s", "e", "a", "r", "c", "h" >> \o Space \o WordAnd
          \o Space \o KwWrite }

\* All runs: any Redis command may raise, and stored records may be deleted.
FaultNext ==
    \/ \E desc \in FaultDescriptions, redis_up \in BOOLEAN :
           SubmitTask(desc, redis_up)
    \/ \E id \in DOMAIN pc, redis_up \in BOOLEAN : ExecuteStart(id, redis_up)
    \/ \E id \in DOMAIN pc : StartSubtask(id)
    \/ \E id \in DOMAIN pc, redis_up \in BOOLEAN : CompleteSubtask(id, redis_up)
    \/ \E id \in DOMAIN pc, redis_up \in BOOLEAN : FinishTask(id, redis_up)
    \/ \E id \in DOMAIN pc : DeleteTask(id)

FaultSpec == Init /\ [][FaultNext]_vars

\* Queries of one task and of an unknown id, at any point of its execution,
\* with Redis failing and the record deleted at will.
QueryNext ==
    \/ \E desc \in FaultDescriptions, redis_up \in BOOLEAN :
           task_queue = << >> /\ SubmitTask(desc, redis_up)
    \/ Execute
    \/ \E id \in DOMAIN pc : DeleteTask(id)
    \/ \E task_id \in DOMAIN pc \cup {UnknownId}, redis_up \in BOOLEAN :
           GetTaskStatus(task_id, redis_up)

QuerySpec == Init /\ [][QueryNext]_vars

\* The push channel: the subscribers of one task and its execution.
WsNext ==
    \/ task_queue = << >> /\ Submit
    \/ Run
    \/ \E task_id \in DOMAIN pc : WsConnect(task_id)
    \/ \E c \in 1..Len(received), redis_up \in BOOLEAN, connected \in BOOLEAN :
           WsPoll(c, redis_up, connected)

WsSpec == Init /\ [][WsNext]_vars

\* The error classifier alone. The HTTP error statuses and details it is
\* given: those of the backend, of a storage outage reported as such, and
\* near misses of the two texts it looks for.
ErrorStatusCodes == { 400, 401, 403, 404, 409, 422, 429, 500, 502, 503, 504 }
ErrorDetails ==
    { NoDetail,
      DetailInvalidTask,
      DetailTaskNotFound,
      StrHTTPException(404, DetailTaskNotFound),
      RedisErrorText,
      << "S", "t", "o", "r", "a", "g", "e", " ", "s", "e", "r", "v", "i",
         "c", "e", " ", "u", "n", "a", "v", "a", "i", "l", "a", "b", "l",
         "e" >>,
      << "R", "e", "d", "i", "s", " ", "c", "o", "n", "n", "e", "c", "t",
         "i", "o", "n", " ", "f", "a", "i", "l", "e", "d" >>,
      << "s", "t", "o", "r", "a", "g", "e", " ", "d", "o", "w", "n", " ",
         "(", "r", "e", "d", "i", "s", ")" >> }

\* The axios errors: a response with a status and a detail, or no response.
ErrorResponses ==
    { NoResponse } \cup [ status_code : ErrorStatusCodes, detail : ErrorDetails ]

ClassifyInit ==
    /\ store = << >>
    /\ expiry = << >>
    /\ task_queue = << >>
    /\ pc = << >>
    /\ idx = << >>
    /\ task = << >>
    /\ log = << >>
    /\ submitted = << >>
    /\ uuids = 0
    /\ response = NoResponse
    /\ query = NoQuery
    /\ received = << >>
    /\ apiResponse \in ErrorResponses
    /\ apiError = [type |-> None, statusCode |-> 0, retryable |-> FALSE]
    /\ UiInit

\* catch (error) { const errorResponse = handleApiError(error, ...) }
Classify ==
    /\ apiError.type = None
    /\ apiError' = handleApiError(apiResponse)
    /\ UNCHANGED << store, expiry, task_queue, pc, idx, task, log, submitted,
                    uuids, response, query, received, apiResponse, uiVars >>

ClassifySpec == ClassifyInit /\ [][Classify]_vars

TypeOK ==
    /\ DOMAIN store \subseteq DOMAIN pc
    /\ DOMAIN expiry = DOMAIN store
    /\ DOMAIN task \subseteq DOMAIN pc
    /\ \A id \in DOMAIN pc :
           pc[id] \in {"created", "loop", "sleep", "done", "crashed"}

\* ------------------------------------------------ replay (TaskReplay.tsx)
\* The options of the speed select, 0.5x 1x 2x 5x, in halves.
SpeedOptions == { 1, 2, 4, 10 }

\* new Date(entry.timestamp).getTime() / 1000 of the entry numbered i: the
\* entries of a log are written 10 s apart.
Timestamp(entry) == 10 * (entry - 1)

\* The duration in the answer of GET /tasks/{id}/replay?speed=: the time
\* from the first to the last entry, divided by the speed (in halves).
ReplayDuration(logs, speed) ==
    IF logs = << >> THEN 0
    ELSE (2 * (Timestamp(logs[Len(logs)]) - Timestamp(logs[1]))) \div speed

\* replayData.logs.slice(0, n)
Slice(logs, n) == SubSeq(logs, 1, IF n < Len(logs) THEN n ELSE Len(logs))

\* socket.current.close() where socket.current is not null.
CloseSocket(r) ==
    IF r.socket # 0 /\ r.socketState \in {"connecting", "open"}
    THEN [r EXCEPT !.socketState = "closed"]
    ELSE r

\* connectWebSocket: socket.current = new WebSocket(.../ws/{taskId}/replay);
\* the server has a new session for it.
ConnectWebSocket(r) ==
    [r EXCEPT !.sessions = @ + 1, !.socket = r.sessions + 1,
              !.socketState = "connecting", !.server = NewSession]

\* The render after a state change from r0 to r and its effects: the
\* cleanups of the effects whose dependencies changed, then these effects.
\*  - fetch effect [taskId, speed]: cleanup closes the socket and cancels
\*    the animation frame; the effect starts getTaskReplay (loading);
\*  - WebSocket effect [replayData, isPlaying, taskId, speed]: cleanup (if
\*    the effect had connected) closes the socket; the effect connects when
\*    replayData && isPlaying;
\*  - play effect [isPlaying, replayData, currentLogIndex, speed]: cancels
\*    the animation frame and requests one when isPlaying && replayData.
AfterRender(r0, r, dataChanged) ==
    LET fetchChanged == r.speed # r0.speed
        wsChanged == dataChanged \/ r.isPlaying # r0.isPlaying \/ fetchChanged
        playChanged == wsChanged \/ r.currentLogIndex # r0.currentLogIndex
        r1 == IF fetchChanged \/ (wsChanged /\ r0.loaded /\ r0.isPlaying)
              THEN CloseSocket(r) ELSE r
        r2 == IF fetchChanged THEN [r1 EXCEPT !.loading = TRUE] ELSE r1
        r3 == IF wsChanged /\ r.loaded /\ r.isPlaying
              THEN ConnectWebSocket(r2) ELSE r2
    IN  IF playChanged
        THEN [r3 EXCEPT !.animating = r.isPlaying /\ r.loaded]
        ELSE r3

\* The controls are rendered: neither the loading nor the error screen.
ControlsShown == ~replay.loading /\ ~replay.error

\* getTaskReplay resolves with the log of the task (n entries, the same at
\* every fetch), or rejects.
ReplayFetched(n, ok) ==
    /\ replay.loading
    /\ replay.loaded => n = Len(replay.logs)
    /\ LET r == IF ok
                THEN AfterRender(replay,
                                 [replay EXCEPT !.loading = FALSE,
                                                !.loaded = TRUE,
                                                !.logs = [i \in 1..n |-> i],
                                                !.duration =
                                                    ReplayDuration(
                                                        [i \in 1..n |-> i],
                                                        replay.speed)],
                                 TRUE)
                ELSE [replay EXCEPT !.loading = FALSE, !.error = TRUE]
       IN  /\ r.sessions <= MaxSessions
           /\ replay' = r
    /\ UNCHANGED replayFrame

\* handlePlay, the button shown while not playing.
HandlePlay ==
    /\ ControlsShown
    /\ ~replay.isPlaying
    /\ LET sent == IF replay.socketState = "open"
                   THEN [replay EXCEPT !.server.paused = FALSE]
                   ELSE replay
           r == AfterRender(replay,
                            [sent EXCEPT !.isPlaying = TRUE, !.stopped = "no"],
                            FALSE)
       IN  /\ r.sessions <= MaxSessions
           /\ replay' = r
    /\ UNCHANGED replayFrame

\* handlePause, the button shown while playing.
HandlePause ==
    /\ ControlsShown
    /\ replay.isPlaying
    /\ LET sent == IF replay.socketState = "open"
                   THEN [replay EXCEPT !.server.paused = TRUE]
                   ELSE replay
       IN  replay' = AfterRender(replay,
                                 [sent EXCEPT !.isPlaying = FALSE,
                                              !.animating = FALSE,
                                              !.paused = TRUE],
                                 FALSE)
    /\ UNCHANGED replayFrame

\* handleRestart.
HandleRestart ==
    /\ ControlsShown
    /\ LET closed == CloseSocket(replay)
       IN  replay' = AfterRender(replay,
                                 [closed EXCEPT !.isPlaying = FALSE,
                                                !.currentLogIndex = -1,
                                                !.visibleLogs = << >>,
                                                !.currentTime = 0,
                                                !.socket = 0,
                                                !.socketState = "none",
                                                !.restarted = TRUE],
                                 FALSE)
    /\ UNCHANGED replayFrame

\* handleSpeedChange(newSpeed), the onChange of the select.
HandleSpeedChange(newSpeed) ==
    /\ ControlsShown
    /\ newSpeed # replay.speed
    /\ LET sent == IF replay.socketState = "open"
                   THEN [replay EXCEPT !.server.speed = newSpeed]
                   ELSE replay
           r == AfterRender(replay,
                            [sent EXCEPT !.speed = newSpeed,
                                         !.speedChanged = TRUE],
                            FALSE)
       IN  /\ r.sessions <= MaxSessions
           /\ replay' = r
    /\ UNCHANGED replayFrame

\* socket.onopen: the connection is made and the client sends { speed },
\* with which the session of the server starts.
SocketOpen ==
    /\ replay.socketState = "connecting"
    /\ replay' = [replay EXCEPT !.socketState = "open",
                                !.server.started = TRUE,
                                !.server.speed = replay.speed]
    /\ UNCHANGED replayFrame

\* socket.onerror: the connection fails.
SocketError ==
    /\ replay.socketState \in {"connecting", "open"}
    /\ replay' = AfterRender(replay,
                             [replay EXCEPT !.socketState = "closed",
                                            !.error = TRUE,
                                            !.isPlaying = FALSE,
                                            !.stopped = "error"],
                             FALSE)
    /\ UNCHANGED replayFrame

\* The live replay stream of the server: a session that is started and not
\* paused sends, from the first entry on, the next entry of the log as
\* log_entry, and replay_complete after the last entry.
ReplayStream(session, logs) ==
    IF ~session.started \/ session.paused \/ session.complete
    THEN "none"
    ELSE IF session.sent < Len(logs) THEN "log_entry" ELSE "replay_complete"

\* socket.onmessage with the next message of the session: the client
\* appends the entry of a log_entry to visibleLogs and counts
\* currentLogIndex up; at replay_complete it stops playing.
ReplayMessage ==
    /\ replay.socketState = "open"
    /\ ReplayStream(replay.server, replay.logs) # "none"
    /\ IF ReplayStream(replay.server, replay.logs) = "log_entry"
       THEN replay' =
                AfterRender(replay,
                    [replay EXCEPT
                        !.server.sent = @ + 1,
                        !.visibleLogs =
                            Append(@, replay.logs[replay.server.sent + 1]),
                        !.currentLogIndex = @ + 1],
                    FALSE)
       ELSE replay' =
                AfterRender(replay,
                    [replay EXCEPT !.server.complete = TRUE,
                                   !.isPlaying = FALSE,
                                   !.stopped = "complete"],
                    FALSE)
    /\ UNCHANGED replayFrame

\* animate, called by requestAnimationFrame with more than 1000 / speed ms
\* elapsed since the last step (a call with less only requests the next
\* frame).
Animate ==
    /\ replay.animating
    /\ IF replay.loaded /\ replay.currentLogIndex < Len(replay.logs) - 1
       THEN replay' =
                AfterRender(replay,
                    [replay EXCEPT
                        !.currentLogIndex = @ + 1,
                        !.visibleLogs =
                            Slice(replay.logs, replay.currentLogIndex + 2),
                        !.currentTime =
                            Timestamp(replay.logs[replay.currentLogIndex + 2])
                                - Timestamp(replay.logs[1])],
                    FALSE)
       ELSE replay' =
                AfterRender(replay,
                    [replay EXCEPT !.isPlaying = FALSE, !.stopped = "end"],
                    FALSE)
    /\ UNCHANGED replayFrame

\* The replay of one task in the TaskReplay component.
ReplayNext ==
    \/ \E n \in 0..MaxLogLen, ok \in BOOLEAN : ReplayFetched(n, ok)
    \/ HandlePlay
    \/ HandlePause
    \/ HandleRestart
    \/ \E newSpeed \in SpeedOptions : HandleSpeedChange(newSpeed)
    \/ SocketOpen
    \/ SocketError
    \/ ReplayMessage
    \/ Animate

ReplaySpec == Init /\ [][ReplayNext]_vars

\* ------------------------------------------- reconnect delay (TaskStatus.tsx)
\* JavaScript numbers are doubles: 2^n is exact for n up to 1023 and is
\* Infinity beyond. The delay is only compared with MAX_RECONNECT_DELAY, so
\* every number from Huge on is kept as Huge.
Huge == 2000000000

\* Math.pow(2, n) for a natural n.
MathPow2(n) == IF n > 30 THEN Huge ELSE 2 ^ n

\* a * b for naturals a > 0 and b.
JsTimes(a, b) == IF b >= Huge \div a THEN Huge ELSE a * b

\* Math.min(a, b)
MathMin(a, b) == IF a <= b THEN a ELSE b

\* Mutant of getReconnectDelay: the delay without its cap.
getReconnectDelay_Uncapped(attempt) ==
    JsTimes(INITIAL_RECONNECT_DELAY, MathPow2(attempt))

\* Math.min(INITIAL_RECONNECT_DELAY * Math.pow(2, attempt), MAX_RECONNECT_DELAY)
getReconnectDelay(attempt) ==
    MathMin(JsTimes(INITIAL_RECONNECT_DELAY, MathPow2(attempt)),
            MAX_RECONNECT_DELAY)

\* The state of the backend and of the other components before any request.
QuietInit ==
    /\ store = << >>
    /\ expiry = << >>
    /\ task_queue = << >>
    /\ pc = << >>
    /\ idx = << >>
    /\ task = << >>
    /\ log = << >>
    /\ submitted = << >>
    /\ uuids = 0
    /\ response = NoResponse
    /\ query = NoQuery
    /\ received = << >>
    /\ apiResponse = NoResponse
    /\ apiError = [type |-> None, statusCode |-> 0, retryable |-> FALSE]

\* getReconnectDelay is given any attempt number.
BackoffSpecInit ==
    /\ QuietInit
    /\ replay = ReplayInit
    /\ backoff \in [ attempt : 0..MaxAttempt, delay : {NoDelay}, prev : {NoDelay} ]
    /\ conn = ConnInit
    /\ theme = ThemeInit
    /\ history = HistoryInit

\* const delay = getReconnectDelay(reconnectAttempts.current)
ComputeDelay ==
    /\ backoff.delay = NoDelay
    /\ backoff' = [backoff EXCEPT !.delay = getReconnectDelay(backoff.attempt)]
    /\ UNCHANGED << serverVars, replay, conn, theme, history >>

\* The delay of the following attempt is asked for; prev keeps this one.
NextAttempt ==
    /\ backoff.delay # NoDelay
    /\ backoff.attempt < MaxAttempt
    /\ backoff' = [ attempt |-> backoff.attempt + 1, delay |-> NoDelay,
                    prev |-> backoff.delay ]
    /\ UNCHANGED << serverVars, replay, conn, theme, history >>

BackoffNext == ComputeDelay \/ NextAttempt

BackoffSpec == BackoffSpecInit /\ [][BackoffNext]_vars

\* ------------------------------------------ status socket (TaskStatus.tsx)
\* The close codes of a CloseEvent that are told apart here.
CloseCodes == {1000, 1001, 1006}

\* reconnectAttempts.current < MAX_RECONNECT_ATTEMPTS
AttemptsLeft(n) == n < MAX_RECONNECT_ATTEMPTS

\* Mutant of ClearReconnectTimeout: the ref is reset, the timer left running.
ClearReconnectTimeout_Keep(c) == [c EXCEPT !.timeout = "null"]

\* if (reconnectTimeout.current) { clearTimeout(...); reconnectTimeout.current = null }
\* clearTimeout of a timer that has fired does nothing.
ClearReconnectTimeout(c) ==
    [c EXCEPT !.timers = IF c.timeout = "pending" THEN @ - 1 ELSE @,
              !.cancelled = @ \/ c.timeout = "pending",
              !.timeout = "null"]

\* Mutant of ShouldReconnect: every close is followed by a reconnection.
ShouldReconnect_Always(code) == TRUE

\* handleClose: if (event.code !== 1000)
ShouldReconnect(code) == code # 1000

\* closeWebSocket(1000, ...): an OPEN socket in ws.current is closed, its
\* close event comes later; ws.current becomes null.
closeWebSocket(c) ==
    [c EXCEPT !.closing = IF c.ws = "open" THEN @ + 1 ELSE @,
              !.ws = "null"]

\* attemptReconnect up to its await: gives up when the attempts are used up,
\* else clears the previous timer, counts the attempt and schedules a timer
\* of getReconnectDelay(reconnectAttempts.current).
attemptReconnect(c) ==
    IF ~AttemptsLeft(c.reconnectAttempts)
    THEN [c EXCEPT !.error = "Connection lost",
                   !.connectionStatus = "disconnected",
                   !.isReconnecting = FALSE]
    ELSE LET c1 == ClearReconnectTimeout(c)
         IN  [c1 EXCEPT !.reconnectAttempts = @ + 1,
                        !.connectionStatus = "connecting",
                        !.isReconnecting = TRUE,
                        !.timeout = "pending",
                        !.timers = @ + 1]

\* The taskId in the closure of the initWebSocket that a caller reaches. The
\* mount effect and the buttons call the initWebSocket of the current render
\* (deps [taskId, closeWebSocket]). The timer callback of attemptReconnect
\* calls the variable initWebSocket of the render that created
\* attemptReconnect, and useCallback(..., [getReconnectDelay]) keeps the
\* attemptReconnect of the first render for ever.
TaskIdOf(c, caller) == IF caller = "timer" THEN FirstTaskId ELSE c.taskId

\* initWebSocket up to its await: the socket in ws.current is closed, a new
\* WebSocket(`.../ws/${taskId}`) is created and awaited.
initWebSocket(c, caller) ==
    [closeWebSocket(c) EXCEPT !.connecting[caller] = @ + 1,
                              !.url = TaskIdOf(c, caller)]

\* The continuation of the timer callback after `await initWebSocket()`:
\* resolve(), finally setIsReconnecting(false).
AfterInit(c, caller) ==
    IF caller = "timer" THEN [c EXCEPT !.isReconnecting = FALSE] ELSE c

\* fetchInitialTask() has settled: loading ends with the task or an error,
\* and a mounted component calls initWebSocket().
FetchDone(found) ==
    /\ conn.loading
    /\ LET c1 == [conn EXCEPT !.loading = FALSE, !.hasTask = found,
                              !.task = IF found THEN FetchedTask ELSE @,
                              !.error = IF found THEN "" ELSE "Failed to fetch task",
                              !.event = "fetch"]
       IN  conn' = IF conn.mounted THEN initWebSocket(c1, "user") ELSE c1
    /\ UNCHANGED << serverVars, replay, backoff, theme, history >>

\* The Reconnect button is rendered and enabled.
ReconnectShown ==
    /\ conn.mounted
    /\ ~conn.loading
    /\ conn.error # "" \/ conn.hasTask
    /\ conn.connectionStatus = "disconnected"
    /\ ~conn.isReconnecting

\* onClick of the Reconnect button: setError('') for the one of the error
\* screen, setIsReconnecting(true), initWebSocket().
ReconnectClick ==
    /\ ReconnectShown
    /\ conn.retries < MaxRetries
    /\ conn' = initWebSocket([conn EXCEPT !.error = "",
                                          !.isReconnecting = TRUE,
                                          !.retries = @ + 1,
                                          !.event = "click"], "user")
    /\ UNCHANGED << serverVars, replay, backoff, theme, history >>

\* The awaited socket opens: it is stored in ws.current with its handlers,
\* the status is connected and the attempts are reset. A socket that was in
\* ws.current stays open with its handlers.
ConnectOpen(caller) ==
    /\ conn.connecting[caller] > 0
    /\ conn.opens < MaxOpens
    /\ conn' = AfterInit(
                [conn EXCEPT !.connecting[caller] = @ - 1,
                             !.leaked = IF conn.ws = "open" THEN @ + 1 ELSE @,
                             !.ws = "open",
                             !.connectionStatus = "connected",
                             !.reconnectAttempts = 0,
                             !.tried = 0,
                             !.opens = @ + 1,
                             !.event = "open"], caller)
    /\ UNCHANGED << serverVars, replay, backoff, theme, history >>

\* The awaited socket fails (onerror) or the 10 s connection timeout ends:
\* the catch of initWebSocket reports it and reconnects if attempts are left.
ConnectFail(caller) ==
    /\ conn.connecting[caller] > 0
    /\ LET c1 == [conn EXCEPT !.connecting[caller] = @ - 1,
                              !.connectionStatus = "disconnected",
                              !.error = "Failed to connect",
                              !.event = "fail"]
           c2 == IF AttemptsLeft(c1.reconnectAttempts)
                 THEN attemptReconnect(c1)
                 ELSE [c1 EXCEPT !.error = "Failed to connect after multiple attempts"]
       IN  conn' = AfterInit(c2, caller)
    /\ UNCHANGED << serverVars, replay, backoff, theme, history >>

\* handleClose(event) for a close code.
handleClose(c, code) ==
    LET c1 == [c EXCEPT !.connectionStatus = "disconnected"]
    IN  IF ShouldReconnect(code) THEN attemptReconnect(c1) ELSE c1

\* The server or the network closes the socket in ws.current.
SocketClose(code) ==
    /\ conn.ws = "open"
    /\ conn' = handleClose([conn EXCEPT !.ws = "closed",
                                        !.event = IF code = 1000 THEN "close1000"
                                                   ELSE "closeOther"], code)
    /\ UNCHANGED << serverVars, replay, backoff, theme, history >>

\* The server or the network closes an open socket that is not in ws.current.
LeakedClose(code) ==
    /\ conn.leaked > 0
    /\ conn' = handleClose([conn EXCEPT !.leaked = @ - 1,
                                        !.event = IF code = 1000 THEN "close1000"
                                                   ELSE "closeOther"], code)
    /\ UNCHANGED << serverVars, replay, backoff, theme, history >>

\* The close event of a socket closed by closeWebSocket(1000) arrives.
ClosingDone ==
    /\ conn.closing > 0
    /\ conn' = handleClose([conn EXCEPT !.closing = @ - 1,
                                        !.event = "close1000"], 1000)
    /\ UNCHANGED << serverVars, replay, backoff, theme, history >>

\* socket.onerror of an open socket: handleWebSocketError.
HandleWebSocketError ==
    /\ conn.ws = "open" \/ conn.leaked > 0
    /\ conn' = [conn EXCEPT !.connectionStatus = "disconnected",
                            !.event = "error"]
    /\ UNCHANGED << serverVars, replay, backoff, theme, history >>

\* The text of a message, by what JSON.parse and the handler see of it:
\* json is "invalid" (JSON.parse throws), "null" (the value null, reading a
\* field of it throws) or "object"; task and error are the fields of the
\* object: Absent, "null", for error a text, for task a record the handler
\* can map (PushedTask) or one whose subtasks is no array (MalformedTask).
Absent == "absent"
PushedTask == "pushed"
MalformedTask == "malformed"
Message(name, json, taskField, errorField) ==
    [ name |-> name, json |-> json, task |-> taskField, error |-> errorField ]

\* The messages a socket delivers. msg-record is what websocket_endpoint
\* sends: the stored task record itself, with its error field null.
Messages ==
    { Message("msg-invalid", "invalid", Absent, Absent),
      Message("msg-null", "null", Absent, Absent),
      Message("msg-empty", "object", Absent, Absent),
      Message("msg-record", "object", Absent, "null"),
      Message("msg-task", "object", PushedTask, Absent),
      Message("msg-task-error", "object", PushedTask, "data.error"),
      Message("msg-task-null", "object", "null", "data.error"),
      Message("msg-task-malformed", "object", MalformedTask, Absent),
      Message("msg-error", "object", Absent, "data.error"),
      Message("msg-error-empty", "object", Absent, "") }

\* if (v) for a field of the parsed message.
Truthy(v) == v \notin { Absent, "null", "" }

\* Mutant of handleWebSocketMessage: a task message keeps the error.
handleWebSocketMessage_KeepError(c, msg) ==
    IF msg.json = "object" /\ Truthy(msg.task) /\ msg.task # MalformedTask
    THEN [c EXCEPT !.task = msg.task, !.hasTask = TRUE,
                   !.connectionStatus = "connected"]
    ELSE c

\* handleWebSocketMessage(event): what is thrown inside the try (by
\* JSON.parse, by reading a field of null, by .map of subtasks) is caught
\* and logged before any state is set.
handleWebSocketMessage(c, msg) ==
    IF msg.json # "object" THEN c
    ELSE IF Truthy(msg.task)
         THEN IF msg.task = MalformedTask THEN c
              ELSE [c EXCEPT !.task = msg.task, !.hasTask = TRUE,
                             !.error = "",
                             !.connectionStatus = "connected"]
         ELSE IF Truthy(msg.error) THEN [c EXCEPT !.error = msg.error]
              ELSE c

\* socket.onmessage of an open socket that has its handlers.
HandleWebSocketMessage(msg) ==
    /\ conn.ws = "open" \/ conn.leaked > 0
    /\ conn' = [handleWebSocketMessage(conn, msg) EXCEPT !.event = msg.name]
    /\ UNCHANGED << serverVars, replay, backoff, theme, history >>

\* A reconnect timer fires: initWebSocket() unless ws.current is OPEN.
\* reconnectTimeout.current keeps naming the timer.
TimerFire ==
    /\ conn.timers > 0
    /\ LET c1 == [conn EXCEPT !.timers = @ - 1,
                              !.timeout = IF @ = "pending" /\ conn.timers = 1
                                          THEN "fired" ELSE @,
                              !.event = "timer"]
       IN  conn' = IF c1.ws # "open"
                   THEN initWebSocket([c1 EXCEPT !.tried = @ + 1], "timer")
                   ELSE [c1 EXCEPT !.connectionStatus = "connected",
                                   !.isReconnecting = FALSE]
    /\ UNCHANGED << serverVars, replay, backoff, theme, history >>

\* The cleanup of the mount effect: the handlers of ws.current are removed
\* and it is closed, the reconnect timer cleared, the attempts reset.
Unmount ==
    /\ conn.mounted
    /\ conn' = [ClearReconnectTimeout(conn) EXCEPT
                    !.mounted = FALSE, !.ws = "null",
                    !.reconnectAttempts = 0, !.event = "unmount"]
    /\ UNCHANGED << serverVars, replay, backoff, theme, history >>

ConnNext ==
    \/ \E found \in BOOLEAN : FetchDone(found)
    \/ ReconnectClick
    \/ \E caller \in {"user", "timer"} : ConnectOpen(caller)
    \/ \E caller \in {"user", "timer"} : ConnectFail(caller)
    \/ \E code \in CloseCodes : SocketClose(code)
    \/ \E code \in CloseCodes : LeakedClose(code)
    \/ ClosingDone
    \/ HandleWebSocketError
    \/ \E msg \in Messages : HandleWebSocketMessage(msg)
    \/ TimerFire
    \/ Unmount

ConnSpec == Init /\ [][ConnNext]_vars

\* The parent renders the component with another taskId after the first
\* fetch has settled: the cleanup of the mount effect runs (as at unmount,
\* the component stays mounted), then the effect again with the new taskId
\* and the initWebSocket of this render: getTaskStatus(taskId) is in flight.
TaskIdChange(id) ==
    /\ conn.mounted
    /\ ~conn.loading
    /\ ~conn.refetching
    /\ conn.changes < MaxChanges
    /\ id # conn.taskId
    /\ conn' = [ClearReconnectTimeout(conn) EXCEPT
                    !.ws = "null", !.reconnectAttempts = 0,
                    !.taskId = id, !.refetching = TRUE,
                    !.changes = @ + 1, !.event = "taskId"]
    /\ UNCHANGED << serverVars, replay, backoff, theme, history >>

\* fetchInitialTask() of the effect run for the new taskId has settled:
\* setTask and setError(''), or setError; then initWebSocket() if the
\* effect has not been cleaned up.
RefetchDone(found) ==
    /\ conn.refetching
    /\ LET c1 == [conn EXCEPT !.refetching = FALSE,
                              !.hasTask = @ \/ found,
                              !.task = IF found THEN FetchedTask ELSE @,
                              !.error = IF found THEN "" ELSE "Failed to fetch task",
                              !.event = "fetch"]
       IN  conn' = IF conn.mounted THEN initWebSocket(c1, "user") ELSE c1
    /\ UNCHANGED << serverVars, replay, backoff, theme, history >>

ChannelNext ==
    \/ ConnNext
    \/ \E id \in TaskIds : TaskIdChange(id)
    \/ \E found \in BOOLEAN : RefetchDone(found)

ChannelSpec == Init /\ [][ChannelNext]_vars

\* ------------------------------------------------ theme (ThemeContext.tsx)
\* What localStorage may hold under 'darkMode' when the page is first
\* loaded: nothing, what the provider wrote, or something else.
StoredValues == { NoItem, "true", "false", "1" }

\* darkMode.toString()
BoolToString(b) == IF b THEN "true" ELSE "false"

\* Mutant of SavedDarkMode: the saved value is ignored for the default.
SavedDarkMode_Default(savedTheme) == TRUE

\* savedTheme === 'true'
SavedDarkMode(savedTheme) == savedTheme = "true"

\* The effect of [darkMode]: localStorage.setItem('darkMode', ...) and the
\* class of the document.
StoreTheme(t) ==
    [t EXCEPT !.stored = BoolToString(t.darkMode), !.darkTheme = t.darkMode]

\* ThemeSpec starts with any stored value.
ThemeSpecInit ==
    /\ QuietInit
    /\ replay = ReplayInit
    /\ backoff = BackoffInit
    /\ conn = ConnInit
    /\ theme \in { NewTheme(stored) : stored \in StoredValues }
    /\ history = HistoryInit

\* ThemeProvider is rendered for the first time: useState(true).
ThemeMount ==
    /\ ~theme.mounted
    /\ theme.mounts < MaxMounts
    /\ theme' = [theme EXCEPT !.mounted = TRUE, !.darkMode = TRUE,
                              !.phase = "mounted", !.update = NoUpdate,
                              !.before1 = NoUpdate, !.before2 = NoUpdate,
                              !.mounts = @ + 1]
    /\ UNCHANGED << serverVars, replay, backoff, conn, history >>

\* The effects of the first render, in the order of the source: the saved
\* theme is read and, if there is one, setDarkMode is called with it; then
\* the darkMode of this render is stored.
ThemeMountEffects ==
    /\ theme.mounted
    /\ theme.phase = "mounted"
    /\ LET savedTheme == theme.stored
           t1 == IF savedTheme # NoItem
                 THEN [theme EXCEPT !.update = << SavedDarkMode(savedTheme) >>]
                 ELSE theme
           t2 == StoreTheme(t1)
       IN  theme' = [t2 EXCEPT !.phase =
                        IF t2.update # NoUpdate /\ t2.update # << t2.darkMode >>
                        THEN "update" ELSE "settled",
                               !.update =
                        IF t2.update # NoUpdate /\ t2.update # << t2.darkMode >>
                        THEN @ ELSE NoUpdate]
    /\ UNCHANGED << serverVars, replay, backoff, conn, history >>

\* The render for a setDarkMode that changes the state.
ThemeRender ==
    /\ theme.mounted
    /\ theme.phase = "update"
    /\ theme' = [theme EXCEPT !.darkMode = theme.update[1], !.update = NoUpdate,
                              !.phase = "effect"]
    /\ UNCHANGED << serverVars, replay, backoff, conn, history >>

\* The effect of [darkMode] after a render that changed darkMode.
ThemeEffect ==
    /\ theme.mounted
    /\ theme.phase = "effect"
    /\ theme' = [StoreTheme(theme) EXCEPT !.phase = "settled"]
    /\ UNCHANGED << serverVars, replay, backoff, conn, history >>

\* toggleDarkMode from a click: setDarkMode(!darkMode) and the render of it;
\* React runs outstanding effects before it handles the click.
toggleDarkMode ==
    /\ theme.mounted
    /\ theme.phase = "settled"
    /\ theme.toggles < MaxToggles
    /\ theme' = [theme EXCEPT !.darkMode = ~theme.darkMode,
                              !.phase = "effect",
                              !.before1 = << theme.darkMode >>,
                              !.before2 = theme.before1,
                              !.toggles = @ + 1]
    /\ UNCHANGED << serverVars, replay, backoff, conn, history >>

\* The page is left: the provider is gone, localStorage stays.
ThemeUnmount ==
    /\ theme.mounted
    /\ theme' = [theme EXCEPT !.mounted = FALSE,
                              !.preference = IF theme.phase = "settled"
                                             THEN << theme.darkMode >>
                                             ELSE NoUpdate,
                              !.phase = "settled", !.update = NoUpdate]
    /\ UNCHANGED << serverVars, replay, backoff, conn, history >>

ThemeNext ==
    \/ ThemeMount
    \/ ThemeMountEffects
    \/ ThemeRender
    \/ ThemeEffect
    \/ toggleDarkMode
    \/ ThemeUnmount

ThemeSpec == ThemeSpecInit /\ [][ThemeNext]_vars

\* --------------------------------------------- task history (api.ts)
\* JSON null as parsed.
JsonNull == [ jsonNull |-> TRUE ]

\* Bodies a response may carry: the list of keys, an error detail of
\* FastAPI, JSON without either, JSON null, text that is not JSON, nothing.
HistoryBodies ==
    { [ text |-> "{status:ok,keys:[]}",
        json |-> << [ status |-> "ok", keys |-> << >> ] >> ],
      [ text |-> "{status:ok,keys:[task:1]}",
        json |-> << [ status |-> "ok", keys |-> << "task:1" >> ] >> ],
      [ text |-> "{detail:Task not found}",
        json |-> << [ detail |-> "Task not found" ] >> ],
      [ text |-> "{}", json |-> << [ empty |-> TRUE ] >> ],
      [ text |-> "null", json |-> << JsonNull >> ],
      [ text |-> "Internal Server Error", json |-> << >> ],
      [ text |-> "", json |-> << >> ] }

HistoryStatusCodes == { 200, 201, 400, 404, 429, 500, 503 }

HistoryResponses ==
    { [ status |-> sc, text |-> b.text, json |-> b.json ] :
        sc \in HistoryStatusCodes, b \in HistoryBodies }

\* response.ok
ResponseOk(resp) == resp.status >= 200 /\ resp.status <= 299

\* `Error ${response.status}: ${errorText || 'Unknown error'}`
RawErrorMessage(resp) ==
    "Error " \o ToString(resp.status) \o ": "
        \o (IF resp.text = "" THEN "Unknown error" ELSE resp.text)

\* handleApiResponse for a response that is not ok: JSON.parse(errorText)
\* and errorData.detail || `Error: ${response.status}`; a body that is not
\* JSON, or is null, throws inside the try and the raw text is used.
ErrorMessageOf(resp) ==
    IF resp.json = << >> \/ resp.json[1] = JsonNull
    THEN RawErrorMessage(resp)
    ELSE IF "detail" \in DOMAIN resp.json[1] /\ resp.json[1].detail # ""
         THEN resp.json[1].detail
         ELSE "Error: " \o ToString(resp.status)

\* handleApiResponse: the value its promise resolves to, or the plain
\* object it rejects with (isError: whether it is an instance of Error).
handleApiResponse(resp) ==
    IF ~ResponseOk(resp)
    THEN [ rejected |-> TRUE, isError |-> FALSE,
           reason |-> [ message |-> ErrorMessageOf(resp),
                        type |-> IF resp.status >= 500
                                 THEN SERVER_ERROR ELSE UNKNOWN_ERROR,
                        statusCode |-> resp.status,
                        retryable |-> resp.status >= 500 \/ resp.status = 429 ] ]
    ELSE IF resp.json = << >>
    THEN [ rejected |-> TRUE, isError |-> FALSE,
           reason |-> [ message |-> "Failed to parse API response",
                        type |-> UNKNOWN_ERROR, retryable |-> FALSE ] ]
    ELSE [ rejected |-> FALSE, data |-> resp.json[1] ]

\* The catch around handleApiResponse in getTaskHistory.
HistoryOfRejection(r) ==
    [ settled |-> "resolved",
      value |-> [ keys |-> << >>, status |-> "error",
                  error |-> IF r.isError THEN r.reason.message
                            ELSE "Unknown error in response handling" ] ]

\* getTaskHistory is called with any network outcome and response.
HistorySpecInit ==
    /\ QuietInit
    /\ replay = ReplayInit
    /\ backoff = BackoffInit
    /\ conn = ConnInit
    /\ theme = ThemeInit
    /\ history \in { NewHistory(network, resp) :
                        network \in BOOLEAN, resp \in HistoryResponses }

\* response = await fetch(endpoint): a network error is caught and
\* { tasks: [] } returned.
HistoryFetch ==
    /\ history.state = "idle"
    /\ history' =
          IF history.network
          THEN [history EXCEPT !.state = "fetched"]
          ELSE [history EXCEPT !.state = "done",
                               !.result = [ settled |-> "resolved",
                                            value |-> [ tasks |-> << >> ] ]]
    /\ UNCHANGED << serverVars, replay, backoff, conn, theme >>

\* data = await handleApiResponse(response): the data is returned, a
\* rejection turned into an object with an empty list of keys.
HistoryResponse ==
    /\ history.state = "fetched"
    /\ LET r == handleApiResponse(history.response)
       IN  history' =
              [history EXCEPT !.state = "done",
                              !.result =
                                 IF r.rejected THEN HistoryOfRejection(r)
                                 ELSE [ settled |-> "resolved",
                                        value |-> r.data ]]
    /\ UNCHANGED << serverVars, replay, backoff, conn, theme >>

HistoryNext == HistoryFetch \/ HistoryResponse

HistorySpec == HistorySpecInit /\ [][HistoryNext]_vars

\* An awaited socket opens or fails; the 10 s connection timeout of
\* initWebSocket ends every wait.
ConnectSettles ==
    \E caller \in {"user", "timer"} : ConnectOpen(caller) \/ ConnectFail(caller)

\* Timers fire, connection attempts settle and close events are delivered.
FairConnSpec ==
    /\ ConnSpec
    /\ WF_vars(TimerFire)
    /\ WF_vars(ConnectSettles)
    /\ WF_vars(ClosingDone)

\* The characters of a text as one string.
RECURSIVE JoinChars(_)
JoinChars(t) == IF t = << >> THEN "" ELSE t[1] \o JoinChars(Tail(t))

\* The fetch Response with the status and the body {"detail": ...} of an
\* axios error response; a response without detail has the body {}.
FetchResponseOf(resp) ==
    IF resp.detail = NoDetail
    THEN [ status |-> resp.status_code, text |-> "{}",
           json |-> << [ empty |-> TRUE ] >> ]
    ELSE [ status |-> resp.status_code,
           text |-> "{detail:" \o JoinChars(resp.detail) \o "}",
           json |-> << [ detail |-> JoinChars(resp.detail) ] >> ]

\* ------------------------------------------------------------- claims
Terminal == {COMPLETED, FAILED}

SomeLeftPending(rec) ==
    \E i \in 1..Len(rec.subtasks) : rec.subtasks[i].status # PENDING

TwoInProgress(rec) ==
    \E i, j \in 1..Len(rec.subtasks) :
        /\ i # j
        /\ rec.subtasks[i].status = IN_PROGRESS
        /\ rec.subtasks[j].status = IN_PROGRESS

\* The records of task id that a state holds: the stored one and, once
\* execute_task has read it, the one being executed.
Records(id) ==
    (IF id \in DOMAIN store THEN {store[id]} ELSE {})
        \cup (IF id \in DOMAIN task THEN {task[id]} ELSE {})

\* C1: a stored task whose status is COMPLETED has progress 1 and every
\* subtask COMPLETED, for every plan size (zero subtasks included).
C1_CompletedIsFull ==
    \A id \in DOMAIN store :
        store[id].status = COMPLETED =>
            /\ store[id].progress = One
            /\ AllCompleted(store[id].subtasks)

\* C2: no write to the store lowers the progress of a task.
C2_ProgressMonotonic ==
    [][ \A id \in DOMAIN store :
            /\ id \in DOMAIN store'
            /\ Leq(store[id].progress, store'[id].progress) ]_vars

\* C2 witness: a task of three or more subtasks has run to its end, so its
\* progress was written several times.
C2_Witness ==
    \E id \in DOMAIN store :
        /\ pc[id] = "done"
        /\ Len(store[id].subtasks) >= 3
        /\ store[id].progress = One

\* C3: when execute_task has returned, the stored task is COMPLETED with
\* progress 1.0, for every number of subtasks.
C3_FinalCompletedFull ==
    \A id \in DOMAIN pc :
        pc[id] = "done" =>
            /\ store[id].status = COMPLETED
            /\ store[id].progress = One

\* C4: a task with a subtask that has left PENDING is IN_PROGRESS until it
\* is terminal (so it never goes from PENDING straight to COMPLETED).
C4_InProgressOnDispatch ==
    \A id \in DOMAIN store :
        \A rec \in Records(id) :
            (SomeLeftPending(rec) /\ rec.status \notin Terminal)
                => rec.status = IN_PROGRESS

\* C5: a task planned with two or more (mutually independent) subtasks
\* comes to a state where two of them are IN_PROGRESS at the same time.
C5_ConcurrentSubtasks ==
    (\E id \in DOMAIN store : Len(store[id].subtasks) >= 2)
        ~> (\E id \in DOMAIN store : \E rec \in Records(id) : TwoInProgress(rec))

\* What holds instead of C5: execute_task runs the subtasks of a task one
\* after the other, and an IN_PROGRESS subtask is never written to the store.
C5_Serialized ==
    \A id \in DOMAIN store :
        /\ \A rec \in Records(id) : ~TwoInProgress(rec)
        /\ \A i \in 1..Len(store[id].subtasks) :
               store[id].subtasks[i].status # IN_PROGRESS

\* The keywords that plan_task finds in a description.
Keywords == {KwResearch, KwCode, KwAnalyze, KwWrite}
Matches(desc) == { kw \in Keywords : Contains(lower(desc), kw) }

TypesOf(subtasks) == [i \in 1..Len(subtasks) |-> subtasks[i].type]

\* The scenario of C6 for task id: the plan, the order of dispatch and
\* the final state.
ResearchThenWrite(id) ==
    /\ TypesOf(store[id].subtasks) = << WEB_RESEARCH, CONTENT_CREATION >>
    /\ \A rec \in Records(id) :
           \A i, j \in 1..Len(rec.subtasks) :
               ( /\ rec.subtasks[i].type = CONTENT_CREATION
                 /\ rec.subtasks[j].type = WEB_RESEARCH
                 /\ rec.subtasks[i].status # PENDING )
                   => rec.subtasks[j].status = COMPLETED
    /\ pc[id] = "done" =>
           /\ store[id].status = COMPLETED
           /\ store[id].progress = One

\* C6 as amended: for a description that matches the research and the
\* write keyword and neither code nor analyze, the plan is [WEB_RESEARCH,
\* CONTENT_CREATION], CONTENT_CREATION stays PENDING until WEB_RESEARCH is
\* COMPLETED, and the run ends COMPLETED with progress 1.0.
C6_ResearchThenWrite ==
    \A id \in DOMAIN submitted :
        Matches(submitted[id]) = {KwResearch, KwWrite} => ResearchThenWrite(id)

\* C6 as stated: the same for every description that matches both the
\* research and the write keyword.
C6_AsStated ==
    \A id \in DOMAIN submitted :
        {KwResearch, KwWrite} \subseteq Matches(submitted[id])
            => ResearchThenWrite(id)

\* C6 witness: such a task has run to its end.
C6_Witness ==
    \E id \in DOMAIN submitted :
        /\ Matches(submitted[id]) = {KwResearch, KwWrite}
        /\ pc[id] = "done"

\* The upper-case form of a lower-case letter.
UpperOf(c) ==
    IF \E i \in 1..Len(LowerCase) : LowerCase[i] = c
    THEN UpperCase[CHOOSE i \in 1..Len(LowerCase) : LowerCase[i] = c]
    ELSE c

\* kw occurs in desc, each letter in either case.
Occurs(desc, kw) ==
    \E i \in 1..(Len(desc) - Len(kw) + 1) :
        \A j \in 1..Len(kw) : desc[i + j - 1] \in {kw[j], UpperOf(kw[j])}

KeywordTypes ==
    << << KwResearch, WEB_RESEARCH >>, << KwCode, CODE_GENERATION >>,
       << KwAnalyze, DATA_ANALYSIS >>, << KwWrite, CONTENT_CREATION >> >>

RECURSIVE TypesFrom(_, _)
TypesFrom(desc, k) ==
    IF k > Len(KeywordTypes) THEN << >>
    ELSE (IF Occurs(desc, KeywordTypes[k][1])
          THEN << KeywordTypes[k][2] >> ELSE << >>) \o TypesFrom(desc, k + 1)

\* C7: the plan stored for a request holds one PENDING subtask for each
\* of research, code, analyze, write that occurs in the description in any
\* case, in that order and with the matching types, with pairwise
\* distinct ids; it is empty only if no keyword occurs.
C7_PlanByKeyword ==
    \A id \in DOMAIN store :
        LET plan == store[id].subtasks
            desc == submitted[id]
        IN  pc[id] = "created" =>
              /\ TypesOf(plan) = TypesFrom(desc, 1)
              /\ \A i \in 1..Len(plan) : plan[i].status = PENDING
              /\ \A i, j \in 1..Len(plan) : i # j => plan[i].id # plan[j].id
              /\ plan = << >> =>
                     \A k \in 1..Len(KeywordTypes) :
                         ~Occurs(desc, KeywordTypes[k][1])

\* C7 witness: a description in mixed case with all four keywords, planned.
C7_Witness ==
    \E id \in DOMAIN store :
        /\ Len(store[id].subtasks) = 4
        /\ submitted[id] # lower(submitted[id])

\* C8: in every stored record the progress is (subtasks COMPLETED) /
\* (subtasks); the record of a task without subtasks has progress 0.
C8_ProgressIsRatio ==
    \A id \in DOMAIN store :
        LET sts == store[id].subtasks
            completed == Cardinality({ i \in 1..Len(sts) :
                                         sts[i].status = COMPLETED })
        IN  IF Len(sts) > 0
            THEN store[id].progress.num * Len(sts)
                     = completed * store[id].progress.den
            ELSE store[id].progress = Zero

\* C8 witness: a record written after some, not all, subtasks completed.
C8_Witness ==
    \E id \in DOMAIN store :
        /\ CountCompleted(store[id].subtasks) > 0
        /\ CountCompleted(store[id].subtasks) < Len(store[id].subtasks)

CountLogged(l, action, subtask) ==
    Cardinality({ k \in 1..Len(l) : l[k] = LogEntry(action, subtask) })

C10_TerminalAbsorbing ==
    [][ \A id \in DOMAIN store :
            store[id].status \in Terminal =>
                /\ id \in DOMAIN store'
                /\ store'[id] = store[id] ]_vars

\* C10 witness: a task with subtasks is COMPLETED in the store while the
\* execution of another task is still under way.
C10_Witness ==
    \E id, other \in DOMAIN store :
        /\ store[id].status = COMPLETED
        /\ Len(store[id].subtasks) > 0
        /\ pc[other] = "sleep"

\* C11: every stored record carries an expiration of at most the retention
\* window of 7 days: no write removes or extends the expiry set at creation.
C11_ExpiryKept ==
    \A id \in DOMAIN store :
        /\ expiry[id] # NoExpiry
        /\ expiry[id] <= RetentionSeconds

\* C12: once the record of a submitted task has disappeared from the store,
\* no later step re-creates it.
C12_NoRecreation ==
    [][ \A id \in DOMAIN pc :
            id \notin DOMAIN store => id \notin DOMAIN store' ]_vars

\* The response to a request whose description failed validate_task.
InvalidTaskResponse ==
    [ status_code |-> 500,
      detail |-> ErrorSubmittingTask \o StrHTTPException(400, DetailInvalidTask) ]

\* The state a submission can create.
createdState == << store, expiry, task_queue, pc, idx, task, log, submitted, uuids >>

\* C13: a submission with an empty description creates no state: the step
\* leaves the store, task_queue and the executions as they were and is not
\* answered with success, and no record, queue entry or execution ever
\* belongs to an empty description.
C13_EmptyCreatesNothing ==
    /\ [](\A id \in DOMAIN submitted : submitted[id] # << >>)
    /\ [][ \A redis_up \in BOOLEAN :
               SubmitTask(<< >>, redis_up) =>
                   /\ UNCHANGED createdState
                   /\ response'.status_code # 200 ]_vars

\* C13 witness: an empty description was rejected while one task is stored,
\* queued and executing.
C13_Witness ==
    /\ response = InvalidTaskResponse
    /\ Len(task_queue) = 1
    /\ \E id \in DOMAIN store : pc[id] = "sleep"

\* C14: a submission that fails validation is answered with HTTP 400 and
\* detail "Invalid task", which handleApiError classifies as
\* VALIDATION_ERROR, not retryable.
C14_ValidationReported ==
    [][ \A redis_up \in BOOLEAN :
            SubmitTask(<< >>, redis_up) =>
                /\ response'.status_code = 400
                /\ response'.detail = DetailInvalidTask
                /\ handleApiError(response').type = VALIDATION_ERROR
                /\ ~handleApiError(response').retryable ]_vars

\* C15: a query by id has three distinguishable outcomes: the snapshot
\* (200) when the record exists, 404 when no record exists, and a
\* storage-unavailable signal, which is neither, when Redis cannot be
\* reached; not-found never has the status of an outage or server error.
C15_QueryOutcomes ==
    query.status_code # 0 =>
        /\ query.redis_up /\ query.exists =>
               /\ query.status_code = 200
               /\ Len(query.body) = 1
        /\ query.redis_up /\ ~query.exists =>
               /\ query.status_code = 404
               /\ query.status_code < 500
        /\ ~query.redis_up => query.status_code \notin {200, 404}

\* The response tells of a storage outage: 503 with a storage or Redis detail.
StorageUnavailable(resp) ==
    /\ resp.status_code = 503
    /\ \/ Contains(resp.detail, KwStorageService)
       \/ Contains(resp.detail, KwRedis)

\* C16: handleApiError marks a storage-unavailable response as retryable
\* and a not-found response (404) as not retryable.
C16_RetryOrGiveUp ==
    apiError.type # None =>
        /\ StorageUnavailable(apiResponse) => apiError.retryable
        /\ apiResponse.status_code = 404 => ~apiError.retryable

\* C17: every accepted submission persists, under an id not used before,
\* the PENDING record (progress 0, all subtasks PENDING) in the step that
\* starts its one execution, which has not run yet, and answers with
\* status PENDING.
C17_FireAndForget ==
    [][ (response' # response /\ response'.status_code = 200) =>
            LET id == response'.task_id
            IN  /\ id \notin DOMAIN pc
                /\ id \notin DOMAIN store
                /\ \A k \in 1..Len(task_queue) : task_queue[k] # id
                /\ id \in DOMAIN store'
                /\ store'[id].task_id = id
                /\ store'[id].status = PENDING
                /\ store'[id].progress = Zero
                /\ \A i \in 1..Len(store'[id].subtasks) :
                       store'[id].subtasks[i].status = PENDING
                /\ task_queue' = Append(task_queue, id)
                /\ DOMAIN pc' = DOMAIN pc \cup {id}
                /\ pc'[id] = "created"
                /\ \A other \in DOMAIN pc : pc'[other] = pc[other]
                /\ response'.status = PENDING ]_vars

\* C17 witness: a second submission was accepted while the first task is
\* executing; its record is stored and its execution has not run yet.
C17_Witness ==
    /\ response.status_code = 200
    /\ response.task_id \in DOMAIN store
    /\ pc[response.task_id] = "created"
    /\ Len(store[response.task_id].subtasks) = 2
    /\ \E other \in DOMAIN pc : pc[other] = "sleep"

\* The snapshot b is the write that follows the snapshot a of the same
\* task: one more subtask completed, or the task completed.
NextWrite(a, b) ==
    \/ /\ CountCompleted(b.subtasks) = CountCompleted(a.subtasks) + 1
       /\ b.status = a.status
    \/ /\ CountCompleted(b.subtasks) = CountCompleted(a.subtasks)
       /\ a.status # COMPLETED
       /\ b.status = COMPLETED

\* C18: every subscriber receives the snapshots written for its task in
\* write order, one message per state change: each message is the write
\* that follows the message before it, none skipped and none sent again.
C18_OnePerChange ==
    \A c \in 1..Len(received) :
        \A k \in 1..(Len(received[c].messages) - 1) :
            NextWrite(received[c].messages[k], received[c].messages[k + 1])

\* C19: an error during the execution of an accepted task is absorbed into
\* the task's state: once the execution of a task has ended, for whatever
\* reason, its stored record is terminal (COMPLETED, or FAILED with an error
\* string), never left PENDING or IN_PROGRESS.
C19_ErrorsAbsorbed ==
    \A id \in DOMAIN pc :
        (pc[id] \in {"done", "crashed"} /\ id \in DOMAIN store) =>
            /\ store[id].status \in Terminal
            /\ store[id].status = FAILED => store[id].error # None

\* C20: each key has one writer. A step changes the value of at most one
\* key; the new value carries the id of the key, and is either the initial
\* record of a submission under an id without execution, or the complete
\* local state of the one execution of that id.
C20_SingleWriter ==
    [][ \A id \in DOMAIN store' :
            (id \notin DOMAIN store \/ store'[id] # store[id]) =>
                /\ store'[id].task_id = id
                /\ \/ /\ id \notin DOMAIN pc
                      /\ pc'[id] = "created"
                      /\ store'[id] = NewTaskResponse(id, store'[id].subtasks)
                   \/ /\ id \in DOMAIN pc
                      /\ pc[id] \in {"loop", "sleep"}
                      /\ id \in DOMAIN task'
                      /\ store'[id] = task'[id]
                /\ \A other \in (DOMAIN store \cap DOMAIN store') \ {id} :
                       store'[other] = store[other] ]_vars

\* C20 witness: two tasks execute at the same time and each has written a
\* subtask completion to its own record.
C20_Witness ==
    \E a, b \in DOMAIN store :
        /\ a # b
        /\ pc[a] = "sleep"
        /\ pc[b] = "sleep"
        /\ CountCompleted(store[a].subtasks) = 1
        /\ CountCompleted(store[b].subtasks) = 1

\* The entries shown are the first entries of the log, each once, in order.
ShownIsPrefix ==
    replay.visibleLogs = Slice(replay.logs, Len(replay.visibleLogs))

\* C21: after handlePause followed by handlePlay the entries shown go on
\* with the exact next entry of the log: none skipped, none shown twice.
C21_ResumeSamePosition ==
    [][ ( /\ replay.paused /\ replay.isPlaying
          /\ ~replay'.speedChanged /\ ~replay'.restarted
          /\ ShownIsPrefix
          /\ replay'.visibleLogs # replay.visibleLogs ) =>
            /\ Len(replay.visibleLogs) < Len(replay.logs)
            /\ replay'.visibleLogs =
                   Slice(replay.logs, Len(replay.visibleLogs) + 1) ]_vars

\* C22: handleSpeedChange while playing keeps the replay connection and
\* the playback position; the session of the server gets the new speed.
C22_SpeedKeepsSession ==
    [][ (replay.isPlaying /\ replay'.speed # replay.speed) =>
            /\ replay'.socket = replay.socket
            /\ replay'.socketState = replay.socketState
            /\ replay'.currentLogIndex = replay.currentLogIndex
            /\ replay'.visibleLogs = replay.visibleLogs
            /\ replay'.socketState = "open" =>
                   replay'.server.speed = replay'.speed ]_vars

\* C23: in a replay played from the start without pause, speed change or
\* restart, currentLogIndex never passes the last index of the log, and
\* when the playback has stopped after the last entry or replay_complete
\* the entries shown are exactly the log.
C23_ReplayReproducesLog ==
    (~replay.paused /\ ~replay.speedChanged /\ ~replay.restarted) =>
        /\ replay.currentLogIndex <= Len(replay.logs) - 1
        /\ replay.stopped \in {"complete", "end"} =>
               replay.visibleLogs = replay.logs

\* C24: for every attempt number n >= 0 the delay computed is
\* min(1000 * 2^n, 30000): it never exceeds MAX_RECONNECT_DELAY and is never
\* smaller than the delay of the attempt before.
C24_BackoffCapped ==
    backoff.delay # NoDelay =>
        /\ backoff.delay <= 30000
        /\ backoff.attempt <= 4 => backoff.delay = 1000 * (2 ^ backoff.attempt)
        /\ backoff.attempt > 4 => backoff.delay = 30000
        /\ backoff.prev # NoDelay => backoff.prev <= backoff.delay

\* C24 witness: the first capped delay, after the last uncapped one.
C24_Witness ==
    /\ backoff.attempt = 5
    /\ backoff.prev = 16000
    /\ backoff.delay = MAX_RECONNECT_DELAY

\* No reconnect timer is pending and no connection attempt is in flight.
ReconnectIdle ==
    /\ conn.timers = 0
    /\ conn.connecting.user = 0
    /\ conn.connecting.timer = 0

\* C25: without a successful connection in between, the reconnect timers
\* make at most MAX_RECONNECT_ATTEMPTS connection attempts; with the attempts
\* used up and nothing pending the socket is connected, or the component
\* shows disconnected with an error message.
C25_BoundedRetries ==
    /\ conn.tried <= MAX_RECONNECT_ATTEMPTS
    /\ ( /\ ReconnectIdle
         /\ conn.mounted
         /\ conn.reconnectAttempts = MAX_RECONNECT_ATTEMPTS ) =>
            /\ conn.connectionStatus = "disconnected"
            /\ conn.error # ""

\* C28: at most one reconnect timer is pending, the one that
\* reconnectTimeout.current names.
C28_OneTimerPending ==
    /\ conn.timers <= 1
    /\ conn.timers = 1 => conn.timeout = "pending"

\* C28 witness: attemptReconnect was called while a reconnect timer was
\* pending, cleared it and scheduled its own.
C28_Witness ==
    /\ conn.mounted
    /\ conn.cancelled
    /\ conn.timers = 1
    /\ conn.event \in {"closeOther", "fail"}

\* C29: a close with code 1000 schedules no reconnection and leaves the
\* attempt counter alone; a close with another code runs attemptReconnect
\* (one more attempt and its timer, or the give-up message when the attempts
\* are used up); a successful connection resets the counter to 0; the
\* counter is always within 0..MAX_RECONNECT_ATTEMPTS.
C29_CloseCodeDecides ==
    /\ [](conn.reconnectAttempts \in 0..MAX_RECONNECT_ATTEMPTS)
    /\ [][ /\ conn'.event = "close1000" =>
                /\ conn'.reconnectAttempts = conn.reconnectAttempts
                /\ conn'.timers = conn.timers
                /\ conn'.timeout = conn.timeout
           /\ conn'.event = "closeOther" =>
                IF conn.reconnectAttempts < MAX_RECONNECT_ATTEMPTS
                THEN /\ conn'.reconnectAttempts = conn.reconnectAttempts + 1
                     /\ conn'.timers = 1
                     /\ conn'.timeout = "pending"
                     /\ conn'.connectionStatus = "connecting"
                ELSE /\ conn'.reconnectAttempts = conn.reconnectAttempts
                     /\ conn'.timers = conn.timers
                     /\ conn'.error = "Connection lost"
                     /\ conn'.connectionStatus = "disconnected"
           /\ conn'.event = "open" => conn'.reconnectAttempts = 0 ]_vars

\* C29 witness: after a successful connection reset the counter, a close
\* with a code other than 1000 has scheduled the first reconnection.
C29_Witness ==
    /\ conn.event = "closeOther"
    /\ conn.opens = 2
    /\ conn.reconnectAttempts = 1
    /\ conn.timers = 1

\* The position of a subtask status in PENDING -> IN_PROGRESS -> COMPLETED.
StatusRank(s) ==
    CASE s = PENDING -> 0
      [] s = IN_PROGRESS -> 1
      [] OTHER -> 2

\* The log records that a subtask was started.
StartsOf(l, st) ==
    { k \in 1..Len(l) : l[k].action = "started" /\ l[k].subtask = st }

\* C27: in every step of execute_task a subtask keeps its status or moves
\* to the next one of PENDING -> IN_PROGRESS -> COMPLETED; a subtask is
\* started only from PENDING, no subtask is started twice, and the stored
\* record never shows a subtask at an earlier status than before.
C27_ForwardOnly ==
    /\ [](\A id \in DOMAIN log : \A k \in 1..Len(log[id]) :
             Cardinality(StartsOf(log[id], log[id][k].subtask)) <= 1)
    /\ [][ /\ \A id \in DOMAIN task \cap DOMAIN task' :
                \A i \in 1..Len(task[id].subtasks) :
                   LET old == task[id].subtasks[i].status
                       new == task'[id].subtasks[i].status
                   IN  /\ StatusRank(new) \in
                            { StatusRank(old), StatusRank(old) + 1 }
                       /\ StartsOf(log'[id], task[id].subtasks[i].id)
                             # StartsOf(log[id], task[id].subtasks[i].id) =>
                               old = PENDING /\ new = IN_PROGRESS
           /\ \A id \in DOMAIN store \cap DOMAIN store' :
                \A i \in 1..Len(store[id].subtasks) :
                    StatusRank(store'[id].subtasks[i].status)
                        >= StatusRank(store[id].subtasks[i].status) ]_vars

\* C27 witness: a run with one subtask completed, the next in progress.
C27_Witness ==
    \E id \in DOMAIN task :
        /\ Len(task[id].subtasks) >= 2
        /\ task[id].subtasks[1].status = COMPLETED
        /\ task[id].subtasks[2].status = IN_PROGRESS
        /\ Cardinality(StartsOf(log[id], task[id].subtasks[1].id)) = 1

\* C26: with the effects run, the stored 'darkMode' is the current darkMode;
\* a provider mounted after one that was left with its effects run shows,
\* once its own effects have run, the darkMode of that one; and after two
\* toggles darkMode is what it was before them.
C26_ThemePersistent ==
    (theme.mounted /\ theme.phase = "settled") =>
        /\ theme.stored = BoolToString(theme.darkMode)
        /\ (theme.preference # NoUpdate /\ theme.before1 = NoUpdate) =>
                theme.preference = << theme.darkMode >>
        /\ theme.before2 # NoUpdate => theme.before2 = << theme.darkMode >>

\* C26 witness: light mode was chosen by toggles, the page was left and
\* loaded again, and the provider shows light mode.
C26_Witness ==
    /\ theme.mounted
    /\ theme.phase = "settled"
    /\ theme.mounts >= 2
    /\ theme.toggles >= 1
    /\ theme.before1 = NoUpdate
    /\ theme.preference = << FALSE >>
    /\ theme.darkMode = FALSE

\* The call failed: no response, a response that is not ok, or a body that
\* is not JSON.
HistoryFailed ==
    \/ ~history.network
    \/ ~ResponseOk(history.response)
    \/ history.response.json = << >>

\* The object has an empty tasks or keys list.
EmptyHistory(v) ==
    \/ "tasks" \in DOMAIN v /\ v.tasks = << >>
    \/ "keys" \in DOMAIN v /\ v.keys = << >>

\* C30: the promise of getTaskHistory is never rejected, and for a failed
\* call it resolves to an object with an empty tasks or keys list and
\* error information.
C30_NeverRejects ==
    history.state = "done" =>
        /\ history.result.settled = "resolved"
        /\ HistoryFailed =>
              /\ EmptyHistory(history.result.value)
              /\ \/ "error" \in DOMAIN history.result.value
                 \/ "errorDetails" \in DOMAIN history.result.value

\* The sockets of the component that are open: the one in ws.current and
\* those it replaced there without closing them.
LiveSockets == (IF conn.ws = "open" THEN 1 ELSE 0) + conn.leaked

\* C31: the component holds at most one open WebSocket at any time, also
\* when initWebSocket is called while an earlier call still awaits its
\* socket.
C31_OneLiveSocket == LiveSockets <= 1

\* C32: an unmounted component has no open WebSocket and no pending
\* reconnect timer, also when it was unmounted while a connection attempt
\* or a reconnect timer callback was in flight.
C32_QuietAfterUnmount ==
    ~conn.mounted => (LiveSockets = 0 /\ conn.timers = 0)

\* C33: whenever the status of a mounted component is disconnected and
\* neither a reconnect timer nor a connection attempt is pending,
\* isReconnecting is eventually false (the Reconnect button is enabled
\* again), unless the component is unmounted first.
C33_ReconnectingEnds ==
    (conn.mounted /\ conn.connectionStatus = "disconnected" /\ ReconnectIdle)
        ~> (~conn.isReconnecting \/ ~conn.mounted)


\* A step in which initWebSocket creates a WebSocket.
SocketCreated ==
    conn'.connecting.user + conn'.connecting.timer
        > conn.connecting.user + conn.connecting.timer

\* C34: every WebSocket the component creates, those of the automatic
\* reconnection included, targets the channel of the taskId prop of that
\* moment.
C34_CurrentChannel ==
    [][SocketCreated => conn'.url = conn'.taskId]_vars

\* The step leaves task, error and connectionStatus as they were.
MessageIgnored ==
    /\ conn'.task = conn.task
    /\ conn'.hasTask = conn.hasTask
    /\ conn'.error = conn.error
    /\ conn'.connectionStatus = conn.connectionStatus

\* The step replaces the task by the one of the message, clears the error
\* and sets the status to connected.
MessageApplied(msg) ==
    /\ conn'.task = msg.task
    /\ conn'.error = ""
    /\ conn'.connectionStatus = "connected"

\* C35 as stated: a message that is not valid JSON, or carries neither a
\* task nor an error field, leaves task, error and connectionStatus
\* unchanged; every message with a task field replaces the task, clears the
\* error and sets connectionStatus to connected.
C35_AnyTaskField ==
    [][\A msg \in Messages : conn'.event = msg.name =>
          /\ (msg.json = "invalid" \/ (msg.task = Absent /\ msg.error = Absent))
                => MessageIgnored
          /\ (msg.json = "object" /\ msg.task # Absent)
                => MessageApplied(msg)]_vars

\* C35 amended: a message that is not valid JSON, or carries neither a task
\* nor an error field, leaves task, error and connectionStatus unchanged; a
\* message whose task field is a record the handler can map replaces the
\* task, clears the error and sets connectionStatus to connected; a task
\* field that is null is treated as absent (the task is kept), and a task
\* that cannot be mapped leaves all three unchanged.
C35_MessageFrame ==
    [][\A msg \in Messages : conn'.event = msg.name =>
          /\ (msg.json = "invalid" \/ (msg.task = Absent /\ msg.error = Absent))
                => MessageIgnored
          /\ (msg.json = "object" /\ msg.task = PushedTask)
                => MessageApplied(msg)
          /\ (msg.json = "object" /\ msg.task = "null")
                => conn'.task = conn.task
          /\ (msg.json = "object" /\ msg.task = MalformedTask)
                => MessageIgnored]_vars

\* C35 witness: a message with a task and an error field has replaced the
\* task: the error is cleared and the status is connected.
C35_Witness ==
    /\ conn.event = "msg-task-error"
    /\ conn.task = PushedTask
    /\ conn.error = ""
    /\ conn.connectionStatus = "connected"

\* C36: for every HTTP error status code and the same response body,
\* handleApiError and handleApiResponse give the same retryable flag.
C36_ClassifiersAgree ==
    (apiError.type # None /\ apiResponse.status_code # 0) =>
        apiError.retryable
            = handleApiResponse(FetchResponseOf(apiResponse)).reason.retryable


\* C37: the position shown never exceeds the length shown, at every speed:
\* 0 <= currentTime <= duration.
C37_PositionWithinLength ==
    /\ 0 <= replay.currentTime
    /\ replay.currentTime <= replay.duration
====
